---- MODULE Spec2Model ----
(***************************************************************************)
(* Heading detection / outline assembly (round1a/outline_extractor.py) and *)
(* persona relevance ranking (utils.py, round1b/persona_analyzer.py).      *)
(*                                                                         *)
(* A Python str is modelled as a sequence of one-character strings, so     *)
(* that strip, lower, split, join, substring tests and the regular         *)
(* expressions are computed character by character as the code does.       *)
(***************************************************************************)
EXTENDS Integers, Sequences, FiniteSets, TLC

(* ------------------------------------------------------------------ *)
(* Characters and the str methods the code uses                        *)
(* ------------------------------------------------------------------ *)

UpperSeq == <<"A", "B", "C", "D", "E", "F", "G", "H", "I", "J", "K", "L", "M", "N", "O", "P", "Q", "R", "S", "T", "U", "V", "W", "X", "Y", "Z">>

LowerSeq == <<"a", "b", "c", "d", "e", "f", "g", "h", "i", "j", "k", "l", "m", "n", "o", "p", "q", "r", "s", "t", "u", "v", "w", "x", "y", "z">>

\* [A-Z]
Upper == {UpperSeq[i] : i \in 1..Len(UpperSeq)}

\* [a-z]
LowerCls == {LowerSeq[i] : i \in 1..Len(LowerSeq)}

\* \d
Digit == {"0", "1", "2", "3", "4", "5", "6", "7", "8", "9"}

\* \s, and the characters str.strip() removes
Whitespace == {" ", "\t", "\n", "\r", "\f"}

LowerMap == [c \in Upper |-> LowerSeq[CHOOSE i \in 1..Len(UpperSeq) : UpperSeq[i] = c]]

ToLowerChar(c) == IF c \in Upper THEN LowerMap[c] ELSE c

\* str.lower()
Lower(s) == IF s = <<>> THEN <<>> ELSE [i \in 1..Len(s) |-> ToLowerChar(s[i])]

\* the first index >= i whose character is not in class C (Len(s)+1 if none)
SkipClass(s, i, C) ==
    IF \A j \in i..Len(s) : s[j] \in C THEN (IF i > Len(s) THEN i ELSE Len(s) + 1)
    ELSE CHOOSE j \in i..Len(s) : s[j] \notin C /\ \A k \in i..(j - 1) : s[k] \in C

\* the last index <= i whose character is not in class C (0 if none)
SkipClassBack(s, i, C) ==
    IF \A j \in 1..i : s[j] \in C THEN 0
    ELSE CHOOSE j \in 1..i : s[j] \notin C /\ \A k \in (j + 1)..i : s[k] \in C

\* str.strip()
Strip(s) ==
    LET a == SkipClass(s, 1, Whitespace)
    IN  IF a > Len(s) THEN <<>> ELSE SubSeq(s, a, SkipClassBack(s, Len(s), Whitespace))

\* sub occurs in s at offset i (0-based)
OccursAt(s, sub, i) == \A j \in 1..Len(sub) : s[i + j] = sub[j]

\* Python's `sub in s`
Contains(s, sub) == \E i \in 0..(Len(s) - Len(sub)) : OccursAt(s, sub, i)

\* the least offset >= i at which sub occurs in s, -1 if none (str.find)
FindFrom(s, sub, i) ==
    LET last == Len(s) - Len(sub)
    IN  IF \A o \in i..last : ~OccursAt(s, sub, o) THEN -1
        ELSE CHOOSE o \in i..last :
                 OccursAt(s, sub, o) /\ \A k \in i..(o - 1) : ~OccursAt(s, sub, k)

RECURSIVE SplitFrom(_, _, _)
SplitFrom(s, sep, i) ==
    LET j == FindFrom(s, sep, i)
    IN  IF j = -1 THEN <<SubSeq(s, i + 1, Len(s))>>
        ELSE <<SubSeq(s, i + 1, j)>> \o SplitFrom(s, sep, j + Len(sep))

\* str.split(sep) for a non-empty separator
Split(s, sep) == SplitFrom(s, sep, 0)

RECURSIVE Join(_, _)
\* sep.join(parts)
Join(parts, sep) ==
    IF parts = <<>> THEN <<>>
    ELSE IF Len(parts) = 1 THEN parts[1]
    ELSE parts[1] \o sep \o Join(Tail(parts), sep)

\* the first n elements: seq[:n]
Take(seq, n) == IF Len(seq) <= n THEN seq ELSE SubSeq(seq, 1, n)

(* ------------------------------------------------------------------ *)
(* Regular expressions, matched from the start of the string (re.match) *)
(* A position is an index into the string; 0 means the match failed.   *)
(* ------------------------------------------------------------------ *)

\* one character of class C at position i
One(s, i, C) == IF i = 0 \/ i > Len(s) \/ s[i] \notin C THEN 0 ELSE i + 1

\* C+ at position i (greedy; the class that follows is always disjoint from C)
Plus(s, i, C) == IF One(s, i, C) = 0 THEN 0 ELSE SkipClass(s, i, C)

\* $ at position i: the end of the string, or just before a final line break
AtEnd(s, i) == i = Len(s) + 1 \/ (i = Len(s) /\ s[i] = "\n")

\* [A-Z][a-z]+ at position i
TitleWord(s, i) == Plus(s, One(s, i, Upper), LowerCls)

RECURSIVE TitleRest(_, _)
\* (\s+[A-Z][a-z]+)*$ at position i
TitleRest(s, i) ==
    \/ AtEnd(s, i)
    \/ LET n == TitleWord(s, Plus(s, i, Whitespace))
       IN  n # 0 /\ TitleRest(s, n)

RECURSIVE TitleRestTrailing(_, _)
\* (\s+[A-Z][a-z]+)*\s*$ at position i
TitleRestTrailing(s, i) ==
    \/ SkipClass(s, i, Whitespace) = Len(s) + 1
    \/ LET n == TitleWord(s, Plus(s, i, Whitespace))
       IN  n # 0 /\ TitleRestTrailing(s, n)

\* ^[A-Z][A-Z\s]+$
MatchAllCaps(s) ==
    /\ Len(s) >= 2
    /\ s[1] \in Upper
    /\ \A i \in 2..Len(s) : s[i] \in Upper \cup Whitespace

\* ^\d+\.  : the position after it
NumPrefix1(s) == One(s, Plus(s, 1, Digit), {"."})

\* ^\d+\.\d+
NumPrefix2(s) == Plus(s, NumPrefix1(s), Digit)

\* ^\d+\.\d+\.\d+
NumPrefix3(s) == Plus(s, One(s, NumPrefix2(s), {"."}), Digit)

\* ^\d+\.\s+[A-Z]
MatchNumbered(s) == One(s, Plus(s, NumPrefix1(s), Whitespace), Upper) # 0

\* ^\d+\.\d+\s+[A-Z]
MatchSubNumbered(s) == One(s, Plus(s, NumPrefix2(s), Whitespace), Upper) # 0

\* ^\d+\.\d+\.\d+\s+[A-Z]
MatchSubSubNumbered(s) == One(s, Plus(s, NumPrefix3(s), Whitespace), Upper) # 0

\* ^[A-Z][a-z]+(\s+[A-Z][a-z]+)*$
MatchTitleCase(s) == LET n == TitleWord(s, 1) IN n # 0 /\ TitleRest(s, n)

\* ^[A-Z][a-z]+(\s+[A-Z][a-z]+)*\s*$
MatchTitleCaseTrailing(s) == LET n == TitleWord(s, 1) IN n # 0 /\ TitleRestTrailing(s, n)

(* ------------------------------------------------------------------ *)
(* utils.py                                                            *)
(* ------------------------------------------------------------------ *)

\* utils.py, is_heading_candidate: heading_words
heading_words == <<
    <<"i", "n", "t", "r", "o", "d", "u", "c", "t", "i", "o", "n">>, <<"c", "o", "n", "c", "l", "u", "s", "i", "o", "n">>, <<"a", "b", "s", "t", "r", "a", "c", "t">>, <<"s", "u", "m", "m", "a", "r", "y">>, <<"b", "a", "c", "k", "g", "r", "o", "u", "n", "d">>,
    <<"m", "e", "t", "h", "o", "d">>, <<"m", "e", "t", "h", "o", "d", "o", "l", "o", "g", "y">>, <<"r", "e", "s", "u", "l", "t", "s">>, <<"d", "i", "s", "c", "u", "s", "s", "i", "o", "n">>, <<"a", "n", "a", "l", "y", "s", "i", "s">>,
    <<"o", "v", "e", "r", "v", "i", "e", "w">>, <<"r", "e", "v", "i", "e", "w">>, <<"r", "e", "l", "a", "t", "e", "d", " ", "w", "o", "r", "k">>, <<"l", "i", "t", "e", "r", "a", "t", "u", "r", "e", " ", "r", "e", "v", "i", "e", "w">>,
    <<"c", "h", "a", "p", "t", "e", "r">>, <<"s", "e", "c", "t", "i", "o", "n">>, <<"p", "a", "r", "t">>, <<"a", "p", "p", "e", "n", "d", "i", "x">>, <<"r", "e", "f", "e", "r", "e", "n", "c", "e", "s">> >>

\* some entry of the list words is a substring of the lowercased text
ContainsAny(text, words) ==
    LET text_lower == Lower(text)
    IN  \E k \in 1..Len(words) : Contains(text_lower, words[k])

is_heading_candidate(text) ==
    IF text = <<>> \/ Len(Strip(text)) < 2 THEN FALSE
    ELSE LET t == Strip(text)
         IN  \/ MatchAllCaps(t)
             \/ MatchNumbered(t)
             \/ MatchTitleCase(t)
             \/ MatchTitleCaseTrailing(t)
             \/ ContainsAny(t, heading_words)

normalize_font_size(font_size) ==
    IF font_size >= 16 THEN 3
    ELSE IF font_size >= 14 THEN 2
    ELSE IF font_size >= 12 THEN 1
    ELSE 0

\* a wrong level: the font weight is not counted
get_heading_level_WeightIgnored(font_size, font_weight, text) ==
    LET normalized_size ==
            normalize_font_size(font_size)
            + (IF text # <<>> /\ is_heading_candidate(text) THEN 1 ELSE 0)
    IN  IF normalized_size >= 3 THEN "H1"
        ELSE IF normalized_size >= 2 THEN "H2"
        ELSE IF normalized_size >= 1 THEN "H3"
        ELSE "BODY"

get_heading_level(font_size, font_weight, text) ==
    LET normalized_size ==
            normalize_font_size(font_size)
            + (IF font_weight # <<>> /\ Contains(Lower(font_weight), <<"b", "o", "l", "d">>) THEN 1 ELSE 0)
            + (IF text # <<>> /\ is_heading_candidate(text) THEN 1 ELSE 0)
    IN  IF normalized_size >= 3 THEN "H1"
        ELSE IF normalized_size >= 2 THEN "H2"
        ELSE IF normalized_size >= 1 THEN "H3"
        ELSE "BODY"

(* ------------------------------------------------------------------ *)
(* round1a/outline_extractor.py                                        *)
(* ------------------------------------------------------------------ *)

\* dict.get(key, default)
Get(d, key, default) == IF key \in DOMAIN d THEN d[key] ELSE default

RECURSIVE ConcatAll(_)
\* the concatenation of a sequence of lists (list.extend / append in a loop)
ConcatAll(lists) ==
    IF lists = <<>> THEN <<>> ELSE Head(lists) \o ConcatAll(Tail(lists))

\* OutlineExtractor.__init__: self.heading_keywords
heading_keywords == <<
    <<"i", "n", "t", "r", "o", "d", "u", "c", "t", "i", "o", "n">>, <<"c", "o", "n", "c", "l", "u", "s", "i", "o", "n">>, <<"a", "b", "s", "t", "r", "a", "c", "t">>, <<"s", "u", "m", "m", "a", "r", "y">>, <<"b", "a", "c", "k", "g", "r", "o", "u", "n", "d">>,
    <<"m", "e", "t", "h", "o", "d">>, <<"m", "e", "t", "h", "o", "d", "o", "l", "o", "g", "y">>, <<"r", "e", "s", "u", "l", "t", "s">>, <<"d", "i", "s", "c", "u", "s", "s", "i", "o", "n">>, <<"a", "n", "a", "l", "y", "s", "i", "s">>,
    <<"o", "v", "e", "r", "v", "i", "e", "w">>, <<"r", "e", "v", "i", "e", "w">>, <<"r", "e", "l", "a", "t", "e", "d", " ", "w", "o", "r", "k">>, <<"l", "i", "t", "e", "r", "a", "t", "u", "r", "e", " ", "r", "e", "v", "i", "e", "w">>,
    <<"c", "h", "a", "p", "t", "e", "r">>, <<"s", "e", "c", "t", "i", "o", "n">>, <<"p", "a", "r", "t">>, <<"a", "p", "p", "e", "n", "d", "i", "x">>, <<"r", "e", "f", "e", "r", "e", "n", "c", "e", "s">>,
    <<"e", "x", "e", "c", "u", "t", "i", "v", "e", " ", "s", "u", "m", "m", "a", "r", "y">>, <<"t", "a", "b", "l", "e", " ", "o", "f", " ", "c", "o", "n", "t", "e", "n", "t", "s">>, <<"a", "c", "k", "n", "o", "w", "l", "e", "d", "g", "m", "e", "n", "t", "s">> >>

\* self.heading_patterns, tried in order by re.match
_matches_heading_pattern(text) ==
    \/ MatchAllCaps(text)
    \/ MatchNumbered(text)
    \/ MatchSubNumbered(text)
    \/ MatchSubSubNumbered(text)
    \/ MatchTitleCase(text)
    \/ MatchTitleCaseTrailing(text)

_contains_heading_keywords(text) == ContainsAny(text, heading_keywords)

_is_font_heading(font_size, font_name, text) ==
    \/ font_size >= 14
    \/ Contains(Lower(font_name), <<"b", "o", "l", "d">>)
    \/ Contains(Lower(font_name), <<"b", "l", "a", "c", "k">>)
    \/ is_heading_candidate(text)

\* a wrong level: the first rule accepts a number and a dot without the white
\* space after them, so it also takes the lines of two and three levels
_determine_level_by_pattern_FirstRuleLoose(text) ==
    IF NumPrefix1(text) # 0 THEN "H1"
    ELSE IF MatchAllCaps(text) THEN "H1"
    ELSE IF MatchTitleCase(text) THEN "H2"
    ELSE "H3"

_determine_level_by_pattern(text) ==
    IF Plus(text, NumPrefix1(text), Whitespace) # 0 THEN "H1"
    ELSE IF Plus(text, NumPrefix2(text), Whitespace) # 0 THEN "H2"
    ELSE IF Plus(text, NumPrefix3(text), Whitespace) # 0 THEN "H3"
    ELSE IF MatchAllCaps(text) THEN "H1"
    ELSE IF MatchTitleCase(text) THEN "H2"
    ELSE "H3"

\* the H2 class checked before the H1 class
_determine_level_by_content_H2First(text) ==
    IF ContainsAny(text, <<<<"m", "e", "t", "h", "o", "d">>, <<"m", "e", "t", "h", "o", "d", "o", "l", "o", "g", "y">>, <<"r", "e", "s", "u", "l", "t", "s">>, <<"d", "i", "s", "c", "u", "s", "s", "i", "o", "n">>,
                           <<"a", "n", "a", "l", "y", "s", "i", "s">>, <<"b", "a", "c", "k", "g", "r", "o", "u", "n", "d">>>>)
    THEN "H2"
    ELSE IF ContainsAny(text, <<<<"i", "n", "t", "r", "o", "d", "u", "c", "t", "i", "o", "n">>, <<"c", "o", "n", "c", "l", "u", "s", "i", "o", "n">>, <<"a", "b", "s", "t", "r", "a", "c", "t">>, <<"s", "u", "m", "m", "a", "r", "y">>,
                                <<"c", "h", "a", "p", "t", "e", "r">>>>)
    THEN "H1"
    ELSE "H3"

_determine_level_by_content(text) ==
    IF ContainsAny(text, <<<<"i", "n", "t", "r", "o", "d", "u", "c", "t", "i", "o", "n">>, <<"c", "o", "n", "c", "l", "u", "s", "i", "o", "n">>, <<"a", "b", "s", "t", "r", "a", "c", "t">>, <<"s", "u", "m", "m", "a", "r", "y">>, <<"c", "h", "a", "p", "t", "e", "r">>>>)
    THEN "H1"
    ELSE IF ContainsAny(text, <<<<"m", "e", "t", "h", "o", "d">>, <<"m", "e", "t", "h", "o", "d", "o", "l", "o", "g", "y">>, <<"r", "e", "s", "u", "l", "t", "s">>, <<"d", "i", "s", "c", "u", "s", "s", "i", "o", "n">>,
                                <<"a", "n", "a", "l", "y", "s", "i", "s">>, <<"b", "a", "c", "k", "g", "r", "o", "u", "n", "d">>>>)
    THEN "H2"
    ELSE "H3"

\* the body of the loop over a page's text blocks: the headings one block adds
FontBlockHeadings(page_num, block) ==
    LET text == Strip(Get(block, "text", <<>>))
        font_size == Get(block, "font_size", 0)
        font_name == Get(block, "font_name", <<>>)
    IN  IF text = <<>> \/ Len(text) < 2 THEN <<>>
        ELSE IF ~_is_font_heading(font_size, font_name, text) THEN <<>>
        ELSE LET level == get_heading_level(font_size, font_name, text)
             IN  IF level = "BODY" THEN <<>>
                 ELSE << [text |-> text, level |-> level, page |-> page_num,
                          font_size |-> font_size, font_name |-> font_name] >>

\* the body of the loop over metadata["pages"]
FontPageHeadings(page_data) ==
    LET page_num == Get(page_data, "page_number", 1)
        text_blocks == Get(page_data, "text_blocks", <<>>)
    IN  ConcatAll([b \in 1..Len(text_blocks) |-> FontBlockHeadings(page_num, text_blocks[b])])

_extract_headings_by_font(metadata) ==
    LET pages == Get(metadata, "pages", <<>>)
    IN  ConcatAll([p \in 1..Len(pages) |-> FontPageHeadings(pages[p])])

\* a wrong loop: enumerate(lines) counts the lines from 0
PatternLineHeadings_FromZero(line_num, raw_line) ==
    LET line == Strip(raw_line)
    IN  IF line = <<>> \/ Len(line) < 2 THEN <<>>
        ELSE IF _matches_heading_pattern(line)
        THEN << [text |-> line, level |-> _determine_level_by_pattern(line),
                 page |-> 1, line_number |-> line_num - 1] >>
        ELSE <<>>

\* the body of the loop over enumerate(lines, 1) of the pattern strategy
PatternLineHeadings(line_num, raw_line) ==
    LET line == Strip(raw_line)
    IN  IF line = <<>> \/ Len(line) < 2 THEN <<>>
        ELSE IF _matches_heading_pattern(line)
        THEN << [text |-> line, level |-> _determine_level_by_pattern(line),
                 page |-> 1, line_number |-> line_num] >>
        ELSE <<>>

_extract_headings_by_pattern(text) ==
    LET lines == Split(text, <<"\n">>)
    IN  ConcatAll([n \in 1..Len(lines) |-> PatternLineHeadings(n, lines[n])])

\* the body of the loop over enumerate(lines, 1) of the keyword strategy
ContentLineHeadings(line_num, raw_line) ==
    LET line == Strip(raw_line)
    IN  IF line = <<>> \/ Len(line) < 2 THEN <<>>
        ELSE IF _contains_heading_keywords(line)
        THEN << [text |-> line, level |-> _determine_level_by_content(line),
                 page |-> 1, line_number |-> line_num] >>
        ELSE <<>>

_extract_headings_by_content(text) ==
    LET lines == Split(text, <<"\n">>)
    IN  ConcatAll([n \in 1..Len(lines) |-> ContentLineHeadings(n, lines[n])])

\* mutant of DedupKey: the key keeps the case of the text
DedupKey_CaseSensitive(heading) == Strip(heading.text)

\* the key of _deduplicate_headings: heading["text"].lower().strip()
DedupKey(heading) == Strip(Lower(heading.text))

RECURSIVE DedupFrom(_, _, _)
\* the loop of _deduplicate_headings from index i on, seen_texts being the keys seen
DedupFrom(headings, i, seen_texts) ==
    IF i > Len(headings) THEN <<>>
    ELSE LET text == DedupKey(headings[i])
         IN  IF text \notin seen_texts
             THEN <<headings[i]>> \o DedupFrom(headings, i + 1, seen_texts \cup {text})
             ELSE DedupFrom(headings, i + 1, seen_texts)

\* seq[::-1]
Reverse(seq) == [i \in 1..Len(seq) |-> seq[Len(seq) + 1 - i]]

\* mutant of _deduplicate_headings: the last candidate of a key is kept
_deduplicate_headings_KeepLast(headings) == Reverse(DedupFrom(Reverse(headings), 1, {}))

_deduplicate_headings(headings) == DedupFrom(headings, 1, {})

\* key=lambda x: x.get("page", 1)
PageKey(heading) == Get(heading, "page", 1)

\* mutant of SortByPage: the list is left in its input order
SortByPage_InputOrder(headings) == headings

RECURSIVE SortByPage(_)
\* list.sort(key=page): stable, an equal key keeps its input position
SortByPage(headings) ==
    IF headings = <<>> THEN <<>>
    ELSE LET n == Len(headings)
             rest == SortByPage(SubSeq(headings, 1, n - 1))
             last == headings[n]
             k == Cardinality({i \in 1..(n - 1) : PageKey(rest[i]) <= PageKey(last)})
         IN  SubSeq(rest, 1, k) \o <<last>> \o SubSeq(rest, k + 1, n - 1)

\* the condition under which the pass swaps headings[i] and headings[i+1]
SwapNeeded(headings, i) ==
    /\ PageKey(headings[i]) = PageKey(headings[i + 1])
    /\ "line_number" \in DOMAIN headings[i]
    /\ "line_number" \in DOMAIN headings[i + 1]
    /\ headings[i].line_number > headings[i + 1].line_number

RECURSIVE SwapPass_Repeated(_, _)
\* the pass repeated until no adjacent pair is left to swap
SwapPass_Repeated(headings, i) ==
    IF i > Len(headings) - 1
    THEN (IF \E k \in 1..(Len(headings) - 1) : SwapNeeded(headings, k)
          THEN SwapPass_Repeated(headings, 1) ELSE headings)
    ELSE IF SwapNeeded(headings, i)
    THEN SwapPass_Repeated([headings EXCEPT ![i] = headings[i + 1], ![i + 1] = headings[i]], i + 1)
    ELSE SwapPass_Repeated(headings, i + 1)

RECURSIVE SwapPass(_, _)
\* for i in range(len(headings) - 1), from index i on (1-based)
SwapPass(headings, i) ==
    IF i > Len(headings) - 1 THEN headings
    ELSE IF SwapNeeded(headings, i)
    THEN SwapPass([headings EXCEPT ![i] = headings[i + 1], ![i + 1] = headings[i]], i + 1)
    ELSE SwapPass(headings, i + 1)

_sort_headings(headings) == SwapPass(SortByPage(headings), 1)

\* the conversion of the sorted headings to the required format
OutlineOf(sorted) ==
    [i \in 1..Len(sorted) |->
        [level |-> sorted[i].level, text |-> sorted[i].text, page |-> sorted[i].page]]

(* ------------------------------------------------------------------ *)
(* utils.py: segment_text_by_sections, rank_sections_by_relevance      *)
(* ------------------------------------------------------------------ *)

\* current_section = {"title": "", "content": [], "page": 1}
EmptySection == [title |-> <<>>, content |-> <<>>, page |-> 1]

\* mutant of SegmentLine: a heading-like line discards the current section
SegmentLine_DropsSection(st, raw_line) ==
    LET line == Strip(raw_line)
    IN  IF line = <<>> THEN st
        ELSE IF is_heading_candidate(line)
        THEN [sections |-> st.sections,
              current_section |-> [title |-> line, content |-> <<>>, page |-> 1]]
        ELSE [st EXCEPT !.current_section.content = Append(@, line)]

\* the body of the loop of segment_text_by_sections on one line; st holds the
\* locals sections and current_section
SegmentLine(st, raw_line) ==
    LET line == Strip(raw_line)
    IN  IF line = <<>> THEN st
        ELSE IF is_heading_candidate(line)
        THEN [sections |-> IF st.current_section.content # <<>>
                           THEN Append(st.sections, st.current_section)
                           ELSE st.sections,
              current_section |-> [title |-> line, content |-> <<>>, page |-> 1]]
        ELSE [st EXCEPT !.current_section.content = Append(@, line)]

\* mutant of SegmentFinal: the final section is added whatever its content
SegmentFinal_Always(st) == Append(st.sections, st.current_section)

\* "Add final section": what segment_text_by_sections returns after the loop
SegmentFinal(st) ==
    IF st.current_section.content # <<>>
    THEN Append(st.sections, st.current_section)
    ELSE st.sections

RECURSIVE SegmentLoop(_, _, _)
SegmentLoop(st, lines, i) ==
    IF i > Len(lines) THEN st ELSE SegmentLoop(SegmentLine(st, lines[i]), lines, i + 1)

segment_text_by_sections(text) ==
    SegmentFinal(SegmentLoop([sections |-> <<>>, current_section |-> EmptySection],
                             Split(text, <<"\n">>), 1))

RECURSIVE KeywordHits_Occurrences(_, _, _)
\* mutant of KeywordHits: every occurrence of a keyword counts
KeywordHits_Occurrences(keywords, text_lower, i) ==
    IF i > Len(keywords) THEN 0
    ELSE Cardinality({o \in 0..(Len(text_lower) - Len(keywords[i])) :
                         OccursAt(text_lower, Lower(keywords[i]), o)})
         + KeywordHits_Occurrences(keywords, text_lower, i + 1)

RECURSIVE KeywordHits(_, _, _)
\* sum(1 for keyword in keywords if keyword.lower() in text_lower), from index i on
KeywordHits(keywords, text_lower, i) ==
    IF i > Len(keywords) THEN 0
    ELSE (IF Contains(text_lower, Lower(keywords[i])) THEN 1 ELSE 0)
         + KeywordHits(keywords, text_lower, i + 1)

\* total_score / max_possible_score if max_possible_score > 0 else 0, kept as the
\* exact fraction num/den (den > 0). The quotient is one correctly rounded
\* division of two small integers, so two scores compare as their fractions do.
RelevanceScore(text, persona_keywords, job_keywords) ==
    LET text_lower == Lower(text)
        total_score == KeywordHits(persona_keywords, text_lower, 1)
                       + KeywordHits(job_keywords, text_lower, 1)
        max_possible_score == Len(persona_keywords) + Len(job_keywords)
    IN  IF max_possible_score > 0
        THEN [num |-> total_score, den |-> max_possible_score]
        ELSE [num |-> 0, den |-> 1]

\* a < b for two scores
ScoreLess(a, b) == a.num * b.den < b.num * a.den

\* a = b for two scores
ScoreEq(a, b) == a.num * b.den = b.num * a.den

\* the body of the loop of rank_sections_by_relevance: {**section, "importance_rank": score}
ScoreSection(section, persona_keywords, job_keywords) ==
    ("importance_rank" :> RelevanceScore(Join(section.content, <<" ">>),
                                         persona_keywords, job_keywords)) @@ section

RECURSIVE SortByRankDesc_TiesReversed(_)
\* mutant of SortByRankDesc: sorted ascending and then reversed, which reverses ties
SortByRankDesc_TiesReversed(items) ==
    IF items = <<>> THEN <<>>
    ELSE LET n == Len(items)
             rest == SortByRankDesc_TiesReversed(SubSeq(items, 1, n - 1))
             last == items[n]
             k == Cardinality({i \in 1..(n - 1) :
                      ScoreLess(last.importance_rank, rest[i].importance_rank)})
         IN  SubSeq(rest, 1, k) \o <<last>> \o SubSeq(rest, k + 1, n - 1)

RECURSIVE SortByRankDesc(_)
\* list.sort(key=importance_rank, reverse=True): descending and stable, equal
\* keys keep their input order
SortByRankDesc(items) ==
    IF items = <<>> THEN <<>>
    ELSE LET n == Len(items)
             rest == SortByRankDesc(SubSeq(items, 1, n - 1))
             last == items[n]
             k == Cardinality({i \in 1..(n - 1) :
                      ~ScoreLess(rest[i].importance_rank, last.importance_rank)})
         IN  SubSeq(rest, 1, k) \o <<last>> \o SubSeq(rest, k + 1, n - 1)

rank_sections_by_relevance(sections, persona_keywords, job_keywords) ==
    SortByRankDesc([i \in 1..Len(sections) |->
                       ScoreSection(sections[i], persona_keywords, job_keywords)])

(* ------------------------------------------------------------------ *)
(* round1b/persona_analyzer.py                                         *)
(* ------------------------------------------------------------------ *)

\* PersonaAnalyzer.__init__: self.persona_keywords, in insertion order
persona_keywords_table == <<
    [key |-> <<"r", "e", "s", "e", "a", "r", "c", "h", "e", "r">>, keywords |-> <<
        <<"m", "e", "t", "h", "o", "d", "o", "l", "o", "g", "y">>, <<"a", "n", "a", "l", "y", "s", "i", "s">>, <<"r", "e", "s", "u", "l", "t", "s">>, <<"c", "o", "n", "c", "l", "u", "s", "i", "o", "n">>, <<"h", "y", "p", "o", "t", "h", "e", "s", "i", "s">>,
        <<"e", "x", "p", "e", "r", "i", "m", "e", "n", "t">>, <<"d", "a", "t", "a">>, <<"s", "t", "a", "t", "i", "s", "t", "i", "c", "a", "l">>, <<"c", "o", "r", "r", "e", "l", "a", "t", "i", "o", "n">>, <<"s", "i", "g", "n", "i", "f", "i", "c", "a", "n", "c", "e">>,
        <<"l", "i", "t", "e", "r", "a", "t", "u", "r", "e", " ", "r", "e", "v", "i", "e", "w">>, <<"r", "e", "l", "a", "t", "e", "d", " ", "w", "o", "r", "k">>, <<"b", "a", "c", "k", "g", "r", "o", "u", "n", "d">>, <<"f", "r", "a", "m", "e", "w", "o", "r", "k">> >>],
    [key |-> <<"s", "t", "u", "d", "e", "n", "t">>, keywords |-> <<
        <<"i", "n", "t", "r", "o", "d", "u", "c", "t", "i", "o", "n">>, <<"o", "v", "e", "r", "v", "i", "e", "w">>, <<"c", "o", "n", "c", "e", "p", "t">>, <<"d", "e", "f", "i", "n", "i", "t", "i", "o", "n">>, <<"e", "x", "a", "m", "p", "l", "e">>,
        <<"e", "x", "p", "l", "a", "n", "a", "t", "i", "o", "n">>, <<"s", "u", "m", "m", "a", "r", "y">>, <<"k", "e", "y", " ", "p", "o", "i", "n", "t", "s">>, <<"i", "m", "p", "o", "r", "t", "a", "n", "t">>, <<"f", "u", "n", "d", "a", "m", "e", "n", "t", "a", "l">>,
        <<"b", "a", "s", "i", "c">>, <<"p", "r", "i", "n", "c", "i", "p", "l", "e", "s">>, <<"t", "h", "e", "o", "r", "y">>, <<"p", "r", "a", "c", "t", "i", "c", "e">> >>],
    [key |-> <<"a", "n", "a", "l", "y", "s", "t">>, keywords |-> <<
        <<"t", "r", "e", "n", "d">>, <<"a", "n", "a", "l", "y", "s", "i", "s">>, <<"p", "e", "r", "f", "o", "r", "m", "a", "n", "c", "e">>, <<"m", "e", "t", "r", "i", "c", "s">>, <<"d", "a", "t", "a">>, <<"s", "t", "a", "t", "i", "s", "t", "i", "c", "s">>,
        <<"c", "o", "m", "p", "a", "r", "i", "s", "o", "n">>, <<"b", "e", "n", "c", "h", "m", "a", "r", "k">>, <<"e", "v", "a", "l", "u", "a", "t", "i", "o", "n">>, <<"a", "s", "s", "e", "s", "s", "m", "e", "n", "t">>, <<"i", "n", "s", "i", "g", "h", "t", "s">>,
        <<"f", "i", "n", "d", "i", "n", "g", "s">>, <<"r", "e", "c", "o", "m", "m", "e", "n", "d", "a", "t", "i", "o", "n", "s">>, <<"s", "t", "r", "a", "t", "e", "g", "y">> >>],
    [key |-> <<"m", "a", "n", "a", "g", "e", "r">>, keywords |-> <<
        <<"e", "x", "e", "c", "u", "t", "i", "v", "e", " ", "s", "u", "m", "m", "a", "r", "y">>, <<"o", "v", "e", "r", "v", "i", "e", "w">>, <<"s", "t", "r", "a", "t", "e", "g", "y">>, <<"p", "l", "a", "n", "n", "i", "n", "g">>, <<"g", "o", "a", "l", "s">>,
        <<"o", "b", "j", "e", "c", "t", "i", "v", "e", "s">>, <<"i", "m", "p", "l", "e", "m", "e", "n", "t", "a", "t", "i", "o", "n">>, <<"t", "i", "m", "e", "l", "i", "n", "e">>, <<"b", "u", "d", "g", "e", "t">>, <<"r", "e", "s", "o", "u", "r", "c", "e", "s">>,
        <<"t", "e", "a", "m">>, <<"l", "e", "a", "d", "e", "r", "s", "h", "i", "p">>, <<"d", "e", "c", "i", "s", "i", "o", "n">>, <<"a", "c", "t", "i", "o", "n">> >>],
    [key |-> <<"j", "o", "u", "r", "n", "a", "l", "i", "s", "t">>, keywords |-> <<
        <<"n", "e", "w", "s">>, <<"s", "t", "o", "r", "y">>, <<"e", "v", "e", "n", "t">>, <<"i", "n", "t", "e", "r", "v", "i", "e", "w">>, <<"q", "u", "o", "t", "e">>, <<"s", "o", "u", "r", "c", "e">>,
        <<"b", "a", "c", "k", "g", "r", "o", "u", "n", "d">>, <<"c", "o", "n", "t", "e", "x", "t">>, <<"t", "i", "m", "e", "l", "i", "n", "e">>, <<"i", "m", "p", "a", "c", "t">>, <<"r", "e", "a", "c", "t", "i", "o", "n">>,
        <<"s", "t", "a", "t", "e", "m", "e", "n", "t">>, <<"a", "n", "n", "o", "u", "n", "c", "e", "m", "e", "n", "t">>, <<"d", "e", "v", "e", "l", "o", "p", "m", "e", "n", "t">> >>] >>

\* PersonaAnalyzer.__init__: self.job_keywords, in insertion order
job_keywords_table == <<
    [key |-> <<"l", "i", "t", "e", "r", "a", "t", "u", "r", "e", " ", "r", "e", "v", "i", "e", "w">>, keywords |-> <<
        <<"p", "r", "e", "v", "i", "o", "u", "s", " ", "w", "o", "r", "k">>, <<"r", "e", "l", "a", "t", "e", "d", " ", "r", "e", "s", "e", "a", "r", "c", "h">>, <<"b", "a", "c", "k", "g", "r", "o", "u", "n", "d">>, <<"m", "e", "t", "h", "o", "d", "o", "l", "o", "g", "y">>,
        <<"f", "i", "n", "d", "i", "n", "g", "s">>, <<"c", "o", "n", "c", "l", "u", "s", "i", "o", "n">>, <<"l", "i", "m", "i", "t", "a", "t", "i", "o", "n", "s">>, <<"f", "u", "t", "u", "r", "e", " ", "w", "o", "r", "k">> >>],
    [key |-> <<"e", "x", "a", "m", " ", "p", "r", "e", "p", "a", "r", "a", "t", "i", "o", "n">>, keywords |-> <<
        <<"k", "e", "y", " ", "c", "o", "n", "c", "e", "p", "t", "s">>, <<"i", "m", "p", "o", "r", "t", "a", "n", "t">>, <<"d", "e", "f", "i", "n", "i", "t", "i", "o", "n">>, <<"e", "x", "a", "m", "p", "l", "e">>, <<"p", "r", "a", "c", "t", "i", "c", "e">>,
        <<"r", "e", "v", "i", "e", "w">>, <<"s", "u", "m", "m", "a", "r", "y">>, <<"m", "a", "i", "n", " ", "p", "o", "i", "n", "t", "s">>, <<"f", "u", "n", "d", "a", "m", "e", "n", "t", "a", "l">> >>],
    [key |-> <<"m", "a", "r", "k", "e", "t", " ", "a", "n", "a", "l", "y", "s", "i", "s">>, keywords |-> <<
        <<"m", "a", "r", "k", "e", "t">>, <<"t", "r", "e", "n", "d">>, <<"c", "o", "m", "p", "e", "t", "i", "t", "i", "o", "n">>, <<"r", "e", "v", "e", "n", "u", "e">>, <<"g", "r", "o", "w", "t", "h">>, <<"s", "t", "r", "a", "t", "e", "g", "y">>,
        <<"p", "e", "r", "f", "o", "r", "m", "a", "n", "c", "e">>, <<"a", "n", "a", "l", "y", "s", "i", "s">>, <<"f", "o", "r", "e", "c", "a", "s", "t">>, <<"o", "p", "p", "o", "r", "t", "u", "n", "i", "t", "y">> >>],
    [key |-> <<"f", "i", "n", "a", "n", "c", "i", "a", "l", " ", "a", "n", "a", "l", "y", "s", "i", "s">>, keywords |-> <<
        <<"f", "i", "n", "a", "n", "c", "i", "a", "l">>, <<"r", "e", "v", "e", "n", "u", "e">>, <<"p", "r", "o", "f", "i", "t">>, <<"l", "o", "s", "s">>, <<"i", "n", "v", "e", "s", "t", "m", "e", "n", "t">>, <<"b", "u", "d", "g", "e", "t">>,
        <<"e", "x", "p", "e", "n", "s", "e">>, <<"i", "n", "c", "o", "m", "e">>, <<"b", "a", "l", "a", "n", "c", "e">>, <<"c", "a", "s", "h", " ", "f", "l", "o", "w">> >>],
    [key |-> <<"t", "e", "c", "h", "n", "i", "c", "a", "l", " ", "r", "e", "v", "i", "e", "w">>, keywords |-> <<
        <<"t", "e", "c", "h", "n", "o", "l", "o", "g", "y">>, <<"s", "y", "s", "t", "e", "m">>, <<"a", "r", "c", "h", "i", "t", "e", "c", "t", "u", "r", "e">>, <<"i", "m", "p", "l", "e", "m", "e", "n", "t", "a", "t", "i", "o", "n">>, <<"d", "e", "s", "i", "g", "n">>,
        <<"p", "e", "r", "f", "o", "r", "m", "a", "n", "c", "e">>, <<"e", "f", "f", "i", "c", "i", "e", "n", "c", "y">>, <<"o", "p", "t", "i", "m", "i", "z", "a", "t", "i", "o", "n">>, <<"s", "c", "a", "l", "a", "b", "i", "l", "i", "t", "y">> >>] >>

\* the default keywords of _extract_persona_keywords
default_persona_keywords == <<
    <<"i", "m", "p", "o", "r", "t", "a", "n", "t">>, <<"k", "e", "y">>, <<"m", "a", "i", "n">>, <<"p", "r", "i", "m", "a", "r", "y">>, <<"e", "s", "s", "e", "n", "t", "i", "a", "l">>, <<"c", "r", "i", "t", "i", "c", "a", "l">>,
    <<"a", "n", "a", "l", "y", "s", "i", "s">>, <<"r", "e", "v", "i", "e", "w">>, <<"s", "u", "m", "m", "a", "r", "y">>, <<"o", "v", "e", "r", "v", "i", "e", "w">>, <<"b", "a", "c", "k", "g", "r", "o", "u", "n", "d">> >>

\* \w
WordChar == Upper \cup LowerCls \cup Digit \cup {"_"}

\* the first index >= i whose character c has (c \in C) = member (Len(s)+1 if none)
SkipRun(s, i, C, member) ==
    IF \A j \in i..Len(s) : (s[j] \in C) # member THEN (IF i > Len(s) THEN i ELSE Len(s) + 1)
    ELSE CHOOSE j \in i..Len(s) :
             (s[j] \in C) = member /\ \A k \in i..(j - 1) : (s[k] \in C) # member

RECURSIVE RunsFrom(_, _, _, _)
\* the maximal runs, from index i on, of characters c with (c \in C) = member
RunsFrom(s, i, C, member) ==
    LET a == SkipRun(s, i, C, member)
    IN  IF a > Len(s) THEN <<>>
        ELSE LET b == SkipRun(s, a, C, ~member)
             IN  <<SubSeq(s, a, b - 1)>> \o RunsFrom(s, b, C, member)

\* str.split() without argument: the runs of non-whitespace characters
SplitWords(s) == RunsFrom(s, 1, Whitespace, FALSE)

\* re.findall(r'\b\w+\b', s): the maximal runs of word characters
FindWords(s) == RunsFrom(s, 1, WordChar, TRUE)

\* [x for x in seq if len(x) > n]
RECURSIVE LongerThan(_, _)
LongerThan(seq, n) ==
    IF seq = <<>> THEN <<>>
    ELSE (IF Len(Head(seq)) > n THEN <<Head(seq)>> ELSE <<>>) \o LongerThan(Tail(seq), n)

\* the two passes over a keyword table: the first key contained in the lowercased
\* input, else the first key one of whose words is contained in it; 0 if none
ExactMatch(table, input_lower) ==
    LET hits == {k \in 1..Len(table) : Contains(input_lower, table[k].key)}
    IN  IF hits = {} THEN 0 ELSE CHOOSE k \in hits : \A j \in hits : k <= j

PartialMatch(table, input_lower) ==
    LET hits == {k \in 1..Len(table) :
                    LET words == SplitWords(table[k].key)
                    IN  \E w \in 1..Len(words) : Contains(input_lower, words[w])}
    IN  IF hits = {} THEN 0 ELSE CHOOSE k \in hits : \A j \in hits : k <= j

_extract_persona_keywords(persona) ==
    LET persona_lower == Lower(persona)
        exact == ExactMatch(persona_keywords_table, persona_lower)
        partial == PartialMatch(persona_keywords_table, persona_lower)
    IN  IF exact # 0 THEN persona_keywords_table[exact].keywords
        ELSE IF partial # 0 THEN persona_keywords_table[partial].keywords
        ELSE default_persona_keywords

\* the length a fallback job keyword must exceed (len(word) > 3)
MinWordLen == 3

\* the number of fallback job keywords kept ([:10])
MaxJobWords == 10

\* the two passes in the other order: a key matching by one word first
_extract_job_keywords_WordFirst(job_description) ==
    LET job_lower == Lower(job_description)
        exact == ExactMatch(job_keywords_table, job_lower)
        partial == PartialMatch(job_keywords_table, job_lower)
    IN  IF partial # 0 THEN job_keywords_table[partial].keywords
        ELSE IF exact # 0 THEN job_keywords_table[exact].keywords
        ELSE Take(LongerThan(FindWords(job_lower), MinWordLen), MaxJobWords)

_extract_job_keywords(job_description) ==
    LET job_lower == Lower(job_description)
        exact == ExactMatch(job_keywords_table, job_lower)
        partial == PartialMatch(job_keywords_table, job_lower)
    IN  IF exact # 0 THEN job_keywords_table[exact].keywords
        ELSE IF partial # 0 THEN job_keywords_table[partial].keywords
        ELSE Take(LongerThan(FindWords(job_lower), MinWordLen), MaxJobWords)

\* ranked_sections[:10]
TopSections == 10

\* paragraphs[:3]
TopParagraphs == 3

\* paragraph[:500]
MaxRefinedLen == 500

\* sub_sections[:20]
TopSubSections == 20

\* mutant of AboveThreshold: relevance_score >= 0.1
AboveThreshold_OrEqual(score) == 10 * score.num >= score.den

\* relevance_score > 0.1, for a score num/den: 10 * num > den
AboveThreshold(score) == 10 * score.num > score.den

RECURSIVE StripNonEmpty(_)
\* [p.strip() for p in parts if p.strip()]
StripNonEmpty(parts) ==
    IF parts = <<>> THEN <<>>
    ELSE (IF Strip(Head(parts)) # <<>> THEN <<Strip(Head(parts))>> ELSE <<>>)
         \o StripNonEmpty(Tail(parts))

\* every content line a paragraph of its own
Paragraphs_PerLine(section) == StripNonEmpty(section.content)

\* the paragraphs of a section: its content joined by " ", split at blank lines
Paragraphs(section) ==
    StripNonEmpty(Split(Join(section.content, <<" ">>), <<"\n", "\n">>))

\* the body of the inner loop of _generate_sub_section_analysis on one paragraph
ParagraphEntry(section, paragraph, persona_keywords, job_keywords) ==
    LET relevance_score == RelevanceScore(paragraph, persona_keywords, job_keywords)
    IN  IF AboveThreshold(relevance_score)
        THEN << [document |-> section.document,
                 page_number |-> section.page_number,
                 refined_text |-> Take(paragraph, MaxRefinedLen),
                 importance_rank |-> relevance_score] >>
        ELSE <<>>

\* the body of the outer loop of _generate_sub_section_analysis on one section
SectionEntries(section, persona_keywords, job_keywords) ==
    LET paragraphs == Take(Paragraphs(section), TopParagraphs)
    IN  ConcatAll([p \in 1..Len(paragraphs) |->
                      ParagraphEntry(section, paragraphs[p], persona_keywords, job_keywords)])

_generate_sub_section_analysis(sections, persona_keywords, job_keywords) ==
    Take(SortByRankDesc(ConcatAll([s \in 1..Len(sections) |->
                                      SectionEntries(sections[s], persona_keywords, job_keywords)])),
         TopSubSections)

\* the body of the loop of analyze_documents over one document: the sections it
\* adds to all_sections (none when its text is empty or missing)
DocumentSections(doc) ==
    LET doc_name == Get(doc, "file_path", <<"u", "n", "k", "n", "o", "w", "n">>)
        doc_text == Get(doc, "text", <<>>)
    IN  IF doc_text = <<>> THEN <<>>
        ELSE LET sections == segment_text_by_sections(doc_text)
             IN  [i \in 1..Len(sections) |->
                     ("document" :> doc_name) @@ ("page_number" :> 1) @@ sections[i]]

\* the "extracted_sections" entry of one top section
SectionSummary(section) ==
    [document |-> section.document,
     page_number |-> section.page_number,
     section_title |-> section.title,
     importance_rank |-> section.importance_rank]

\* mutant of TopOf: the slice is taken one position too far (ranked_sections[1:11])
TopOf_ShiftedByOne(ranked) == SubSeq(ranked, 2, IF Len(ranked) <= TopSections + 1 THEN Len(ranked) ELSE TopSections + 1)

\* top_sections = ranked_sections[:10]
TopOf(ranked) == Take(ranked, TopSections)

\* the record analyze_documents returns, given the ranked sections; the
\* timestamp is the external clock's and is left out
AnalysisOutput(docs, persona_text, job_text, ranked, persona_kw, job_kw) ==
    LET top_sections == TopOf(ranked)
        sub_sections == _generate_sub_section_analysis(top_sections, persona_kw, job_kw)
    IN  [metadata |-> [input_documents |-> [d \in 1..Len(docs) |->
                                               Get(docs[d], "file_path", <<"u", "n", "k", "n", "o", "w", "n">>)],
                       persona |-> persona_text,
                       job_to_be_done |-> job_text],
         extracted_sections |-> [i \in 1..Len(top_sections) |-> SectionSummary(top_sections[i])],
         sub_section_analysis |-> sub_sections]

(* ------------------------------------------------------------------ *)
(* State                                                               *)
(* ------------------------------------------------------------------ *)

VARIABLES
    pc,                 \* the position of the running operation
    \* OutlineExtractor.extract_outline
    pdf_data,           \* its argument
    headings,           \* the local list the three strategies extend
    unique_headings,    \* the result of _deduplicate_headings
    sorted_headings,    \* the result of _sort_headings
    result,             \* the returned record
    \* segment_text_by_sections
    text,               \* its argument
    line_idx,           \* the index of the next line of the loop
    seg,                \* its locals sections and current_section
    sections,           \* the returned list
    \* rank_sections_by_relevance and PersonaAnalyzer.analyze_documents
    persona_keywords,
    job_keywords,
    rank_input,         \* the argument sections of rank_sections_by_relevance
    ranked_sections,    \* its local list, then its result
    documents,          \* the arguments of analyze_documents
    persona,
    job_to_be_done,
    doc_idx,            \* the index of the next document of the loop
    all_sections,       \* its local list
    output,             \* the returned record
    \* clean_text, applied once and again
    dirty_text,         \* its argument
    clean,              \* its result
    clean_again,        \* the result of cleaning the result
    \* PDFProcessor.extract_text_with_metadata
    plumber_text,       \* the text of _extract_with_pdfplumber
    pypdf_text,         \* the text of _extract_with_pypdf2
    combined_text,      \* its local combined_text
    \* run_round_1a and process_documents
    pdf_files,          \* the files found, with what processing each one does
    file_idx,           \* the index of the next file of the loop
    results,            \* the results record of run_round_1a
    \* PersonaAnalyzer.calculate_document_similarity
    doc1_text,
    doc2_text,
    similarity          \* the returned value

outlineVars == <<pdf_data, headings, unique_headings, sorted_headings, result>>

segmentVars == <<text, line_idx, seg, sections>>

rankVars == <<persona_keywords, job_keywords, rank_input, ranked_sections>>

analyzeVars == <<documents, persona, job_to_be_done, doc_idx, all_sections, output>>

cleanVars == <<dirty_text, clean, clean_again>>

extractVars == <<plumber_text, pypdf_text, combined_text>>

batchVars == <<pdf_files, file_idx, results>>

similarityVars == <<doc1_text, doc2_text, similarity>>

toolVars == <<cleanVars, extractVars, batchVars, similarityVars>>

vars == <<pc, outlineVars, segmentVars, rankVars, analyzeVars, toolVars>>

\* the value of a variable the running operation does not use
Unused == <<>>

OutlineIdle == pdf_data = Unused /\ headings = Unused /\ unique_headings = Unused
               /\ sorted_headings = Unused /\ result = Unused

SegmentIdle == text = Unused /\ line_idx = 0 /\ seg = Unused /\ sections = Unused

RankIdle == persona_keywords = Unused /\ job_keywords = Unused /\ rank_input = Unused
            /\ ranked_sections = Unused

AnalyzeIdle == documents = Unused /\ persona = Unused /\ job_to_be_done = Unused
               /\ doc_idx = 0 /\ all_sections = Unused /\ output = Unused

CleanIdle == dirty_text = Unused /\ clean = Unused /\ clean_again = Unused

ExtractIdle == plumber_text = Unused /\ pypdf_text = Unused /\ combined_text = Unused

BatchIdle == pdf_files = Unused /\ file_idx = 0 /\ results = Unused

SimilarityIdle == doc1_text = Unused /\ doc2_text = Unused /\ similarity = Unused

ToolsIdle == CleanIdle /\ ExtractIdle /\ BatchIdle /\ SimilarityIdle

\* all sequences over S of length at most n
SeqsUpTo(S, n) == UNION {[1..k -> S] : k \in 0..n}

(* ------------------------------------------------------------------ *)
(* extract_outline, statement by statement                             *)
(* ------------------------------------------------------------------ *)

\* the number of lines of a document text given to extract_outline
MaxLines == 3

\* the lines a document text is made of
OutlineLines == {
    <<"S", "c", "o", "p", "e">>,               \* Title Case, no keyword
    <<"t", "h", "e", " ", "s", "u", "m", "m", "a", "r", "y">>,         \* keyword only
    <<"1", ".", " ", "A", "i", "m", "s">>,             \* numbered
    <<"I", "n", "t", "r", "o", "d", "u", "c", "t", "i", "o", "n">>,        \* Title Case and keyword
    <<"i", "n", "t", "r", "o", "d", "u", "c", "t", "i", "o", "n", " ", " ">>,      \* the same key as "Introduction"
    <<"p", "l", "a", "i", "n", " ", "t", "e", "x", "t", " ", "b", "o", "d", "y">>,     \* no heading
    <<>> }                  \* a blank line

\* texts with numbered lines of one, two and three levels, among them the text
\* "1. Scope", "Some body text", "1.1 Detail", "More text" separated by blank
\* lines
NumberedTexts == {
    <<"1", ".", " ", "S", "c", "o", "p", "e", "\n", "\n", "S", "o", "m", "e", " ", "b", "o", "d", "y", " ", "t", "e", "x", "t", "\n", "\n", "1", ".", "1", " ", "D", "e", "t", "a", "i", "l", "\n", "\n", "M", "o", "r", "e", " ", "t", "e", "x", "t">>,
    <<"1", ".", "2", ".", "3", " ", "D", "e", "e", "p", " ", "i", "t", "e", "m", "\n", " ", "2", ".", "1", " ", "P", "a", "r", "t", " ", "t", "w", "o", " ", "\n", "1", "0", ".", " ", " ", "L", "a", "s", "t">>,
    <<"3", ".", "4", ".", "5", " ", "T", "h", "i", "r", "d", " ", "l", "e", "v", "e", "l", "\n", "1", ".", " ", "s", "c", "o", "p", "e", "\n", "1", ".", "1", " ", "d", "e", "t", "a", "i", "l">> }

\* texts whose lines have words of one, two and three keyword classes
KeywordTexts == {
    <<"S", "u", "m", "m", "a", "r", "y", " ", "o", "f", " ", "r", "e", "s", "u", "l", "t", "s", "\n", "a", "n", "a", "l", "y", "s", "i", "s", " ", "o", "f", " ", "d", "a", "t", "a", "\n", "A", "p", "p", "e", "n", "d", "i", "x">>,
    <<"t", "h", "e", " ", "m", "e", "t", "h", "o", "d", " ", "b", "e", "f", "o", "r", "e", " ", "t", "h", "e", " ", "c", "o", "n", "c", "l", "u", "s", "i", "o", "n", "\n", "l", "i", "t", "e", "r", "a", "t", "u", "r", "e", " ", "r", "e", "v", "i", "e", "w", "\n", "r", "e", "f", "e", "r", "e", "n", "c", "e", "s">>,
    <<"b", "a", "c", "k", "g", "r", "o", "u", "n", "d", "\n", "R", "e", "l", "a", "t", "e", "d", " ", "W", "o", "r", "k", " ", "O", "v", "e", "r", "v", "i", "e", "w", "\n", "n", "o", " ", "h", "i", "t", " ", "h", "e", "r", "e">> }

\* a text whose candidates come out with the line numbers 5, 7, 2, 3: lines 5
\* and 7 from the pattern strategy, lines 2 and 3 from the keyword strategy
ChainText == <<"p", "l", "a", "i", "n", " ", "t", "e", "x", "t", " ", "b", "o", "d", "y", "\n", "t", "h", "e", " ", "s", "u", "m", "m", "a", "r", "y", "\n", "t", "h", "e", " ", "m", "e", "t", "h", "o", "d", "\n", "\n", "S", "c", "o", "p", "e", "\n", "\n", "1", ".", " ", "A", "i", "m", "s">>

OutlineTexts == {Join(ls, <<"\n">>) : ls \in SeqsUpTo(OutlineLines, MaxLines)}
                \cup NumberedTexts \cup KeywordTexts \cup {ChainText}

\* Python's None, where a dict is expected
None == [NoneType |-> TRUE]

\* the font metadata: pages out of order, a page without number, blocks that are
\* headings by size, by weight, by text, and blocks that are none; None; no
\* pages; a page of blocks of every size bucket, bold or not, heading text or not
OutlineMetadata == {
    <<>>,
    None,
    [pages |-> <<>>],
    [pages |-> <<
        [page_number |-> 1, text_blocks |-> <<
            [text |-> <<"C", "o", "n", "c", "l", "u", "s", "i", "o", "n">>, font_size |-> 18, font_name |-> <<"A", "r", "i", "a", "l", "-", "B", "o", "l", "d">>],
            [text |-> <<"r", "a", "n", "d", "o", "m", " ", "t", "e", "x", "t">>, font_size |-> 14, font_name |-> <<"A", "r", "i", "a", "l">>],
            [text |-> <<"m", "o", "r", "e", " ", "r", "a", "n", "d", "o", "m", " ", "t", "e", "x", "t">>, font_size |-> 16, font_name |-> <<"A", "r", "i", "a", "l">>],
            [text |-> <<"M", "e", "t", "h", "o", "d", "s", " ", "u", "s", "e", "d">>, font_size |-> 12, font_name |-> <<"T", "i", "m", "e", "s", "-", "B", "O", "L", "D">>],
            [text |-> <<"s", "m", "a", "l", "l", " ", "p", "r", "i", "n", "t">>, font_size |-> 12, font_name |-> <<"A", "r", "i", "a", "l">>],
            [text |-> <<"O", "v", "e", "r", "v", "i", "e", "w">>, font_size |-> 11, font_name |-> <<"A", "r", "i", "a", "l">>],
            [text |-> <<"p", "l", "a", "i", "n", " ", "w", "o", "r", "d", "s">>, font_size |-> 11, font_name |-> <<"H", "e", "l", "v", "e", "t", "i", "c", "a", "-", "B", "o", "l", "d">>],
            [text |-> <<"x">>, font_size |-> 18, font_name |-> <<"A", "r", "i", "a", "l", "-", "B", "o", "l", "d">>],
            [text |-> <<"a", " ", "n", "o", "t", "e">>, font_size |-> 10, font_name |-> <<"A", "r", "i", "a", "l", "-", "B", "l", "a", "c", "k">>],
            [text |-> <<"C", "h", "a", "p", "t", "e", "r", " ", "O", "n", "e">>, font_size |-> 14, font_name |-> <<"A", "r", "i", "a", "l", " ", "B", "o", "l", "d">>] >>] >>],
    [pages |-> <<
        [page_number |-> 2, text_blocks |-> <<
            [text |-> <<"I", "n", "t", "r", "o", "d", "u", "c", "t", "i", "o", "n">>, font_size |-> 18, font_name |-> <<"A", "r", "i", "a", "l", "-", "B", "o", "l", "d">>] >>],
        [page_number |-> 1, text_blocks |-> <<
            [text |-> <<"F", "i", "g", "u", "r", "e", " ", "o", "n", "e">>, font_size |-> 14, font_name |-> <<"T", "i", "m", "e", "s">>],
            [text |-> <<"p", "l", "a", "i", "n", " ", "t", "e", "x", "t", " ", "b", "o", "d", "y">>, font_size |-> 10, font_name |-> <<"T", "i", "m", "e", "s">>] >>] >>],
    [pages |-> <<
        [text_blocks |-> <<
            [text |-> <<" ", "T", "H", "E", " ", "S", "U", "M", "M", "A", "R", "Y", " ">>, font_size |-> 12, font_name |-> <<"A", "r", "i", "a", "l">>],
            [text |-> <<"a", " ", "n", "o", "t", "e">>, font_size |-> 10, font_name |-> <<"A", "r", "i", "a", "l", "-", "B", "l", "a", "c", "k">>] >>] >>],
    [pages |-> <<
        [page_number |-> 3, text_blocks |-> <<
            [text |-> <<"S", "c", "o", "p", "e">>, font_size |-> 11, font_name |-> <<"A", "r", "i", "a", "l">>] >>],
        [page_number |-> 2, text_blocks |-> <<>>] >>] }

OutlineInputs ==
    {[text |-> t, metadata |-> m, title |-> <<"D", "o", "c">>] : t \in OutlineTexts, m \in OutlineMetadata}
    \cup {[title |-> <<"D", "o", "c">>], [text |-> <<"S", "c", "o", "p", "e">>]}
    \cup {[metadata |-> m] : m \in OutlineMetadata}

OutlineInit ==
    /\ pc = "outline"
    /\ pdf_data \in OutlineInputs
    /\ headings = <<>>
    /\ unique_headings = <<>>
    /\ sorted_headings = <<>>
    /\ result = Unused
    /\ SegmentIdle /\ RankIdle /\ AnalyzeIdle
    /\ ToolsIdle

\* pdf_data.get("title", "Untitled Document")
TitleOf(data) == Get(data, "title", <<"U", "n", "t", "i", "t", "l", "e", "d", " ", "D", "o", "c", "u", "m", "e", "n", "t">>)

\* a wrong test: only a missing text counts
NotText_OnlyMissing(data) == "text" \notin DOMAIN data

\* text = pdf_data.get("text", ""); not text
NotText(data) == Get(data, "text", <<>>) = <<>>

\* if not text: return {"title": ..., "outline": []}
ReturnEmpty ==
    /\ pc = "outline"
    /\ NotText(pdf_data)
    /\ result' = [title |-> TitleOf(pdf_data), outline |-> <<>>]
    /\ pc' = "done"
    /\ UNCHANGED <<pdf_data, headings, unique_headings, sorted_headings>>
    /\ UNCHANGED <<segmentVars, rankVars, analyzeVars>>
    /\ UNCHANGED toolVars

\* Method 1: headings.extend(self._extract_headings_by_font(metadata))
ExtractByFont ==
    /\ pc = "outline"
    /\ ~NotText(pdf_data)
    /\ Get(pdf_data, "metadata", <<>>) # None
    /\ headings' = headings \o _extract_headings_by_font(Get(pdf_data, "metadata", <<>>))
    /\ pc' = "pattern"
    /\ UNCHANGED <<pdf_data, unique_headings, sorted_headings, result>>
    /\ UNCHANGED <<segmentVars, rankVars, analyzeVars>>
    /\ UNCHANGED toolVars

\* Method 1 when pdf_data["metadata"] is None: metadata.get("pages", []) in
\* _extract_headings_by_font raises AttributeError, which nothing catches
RaiseOnNoneMetadata ==
    /\ pc = "outline"
    /\ ~NotText(pdf_data)
    /\ Get(pdf_data, "metadata", <<>>) = None
    /\ pc' = "raised"
    /\ UNCHANGED outlineVars
    /\ UNCHANGED <<segmentVars, rankVars, analyzeVars>>
    /\ UNCHANGED toolVars

\* Method 2: headings.extend(self._extract_headings_by_pattern(text))
ExtractByPattern ==
    /\ pc = "pattern"
    /\ headings' = headings \o _extract_headings_by_pattern(pdf_data.text)
    /\ pc' = "content"
    /\ UNCHANGED <<pdf_data, unique_headings, sorted_headings, result>>
    /\ UNCHANGED <<segmentVars, rankVars, analyzeVars>>
    /\ UNCHANGED toolVars

\* Method 3: headings.extend(self._extract_headings_by_content(text))
ExtractByContent ==
    /\ pc = "content"
    /\ headings' = headings \o _extract_headings_by_content(pdf_data.text)
    /\ pc' = "dedup"
    /\ UNCHANGED <<pdf_data, unique_headings, sorted_headings, result>>
    /\ UNCHANGED <<segmentVars, rankVars, analyzeVars>>
    /\ UNCHANGED toolVars

\* unique_headings = self._deduplicate_headings(headings)
Deduplicate ==
    /\ pc = "dedup"
    /\ unique_headings' = _deduplicate_headings(headings)
    /\ pc' = "sort"
    /\ UNCHANGED <<pdf_data, headings, sorted_headings, result>>
    /\ UNCHANGED <<segmentVars, rankVars, analyzeVars>>
    /\ UNCHANGED toolVars

\* sorted_headings = self._sort_headings(unique_headings)
SortHeadings ==
    /\ pc = "sort"
    /\ sorted_headings' = _sort_headings(unique_headings)
    /\ pc' = "format"
    /\ UNCHANGED <<pdf_data, headings, unique_headings, result>>
    /\ UNCHANGED <<segmentVars, rankVars, analyzeVars>>
    /\ UNCHANGED toolVars

\* the conversion loop and the return
ReturnOutline ==
    /\ pc = "format"
    /\ result' = [title |-> TitleOf(pdf_data), outline |-> OutlineOf(sorted_headings)]
    /\ pc' = "done"
    /\ UNCHANGED <<pdf_data, headings, unique_headings, sorted_headings>>
    /\ UNCHANGED <<segmentVars, rankVars, analyzeVars>>
    /\ UNCHANGED toolVars

OutlineNext ==
    \/ ReturnEmpty
    \/ ExtractByFont
    \/ RaiseOnNoneMetadata
    \/ ExtractByPattern
    \/ ExtractByContent
    \/ Deduplicate
    \/ SortHeadings
    \/ ReturnOutline

SpecOutline == OutlineInit /\ [][OutlineNext]_vars

(* ------------------------------------------------------------------ *)
(* Claims about extract_outline                                        *)
(* ------------------------------------------------------------------ *)

\* the candidates of extract_outline's argument in the order font strategy,
\* pattern strategy, keyword strategy
Candidates(data) ==
    _extract_headings_by_font(Get(data, "metadata", <<>>))
    \o _extract_headings_by_pattern(data.text)
    \o _extract_headings_by_content(data.text)

\* the dedup key as the claims word it: the heading text trimmed and lowercased
TrimmedLowercased(t) == Lower(Strip(t))

\* a list of records with a page is non-decreasing by page
NonDecreasingByPage(list) ==
    \A i \in 1..(Len(list) - 1) : list[i].page <= list[i + 1].page

\* C1: the heading list extract_outline returns is non-decreasing by page number,
\* also after the line-number swap pass has run
C1_NonDecreasingByPage ==
    /\ pc = "format" => NonDecreasingByPage(sorted_headings)
    /\ pc = "done" => NonDecreasingByPage(result.outline)

\* C1 witness: an outline over several pages whose candidates were not in page
\* order and in which the swap pass moved an entry
C1_Witness ==
    /\ pc = "done"
    /\ \E i, j \in 1..Len(result.outline) : result.outline[i].page < result.outline[j].page
    /\ ~NonDecreasingByPage(unique_headings)
    /\ sorted_headings # SortByPage(unique_headings)

\* C2: after deduplication no two headings have the same key (text trimmed and
\* lowercased); a text with the lines "Introduction" and "introduction  " leaves
\* exactly one entry of that key in the outline
C2_NoTwoHeadingsShareKey ==
    /\ pc = "sort" =>
          \A i, j \in 1..Len(unique_headings) :
              i # j => TrimmedLowercased(unique_headings[i].text)
                       # TrimmedLowercased(unique_headings[j].text)
    /\ pc = "done" =>
          /\ \A i, j \in 1..Len(result.outline) :
                i # j => TrimmedLowercased(result.outline[i].text)
                         # TrimmedLowercased(result.outline[j].text)
          /\ LET lines == Split(Get(pdf_data, "text", <<>>), <<"\n">>)
             IN  (/\ \E n \in 1..Len(lines) : lines[n] = <<"I", "n", "t", "r", "o", "d", "u", "c", "t", "i", "o", "n">>
                  /\ \E n \in 1..Len(lines) : lines[n] = <<"i", "n", "t", "r", "o", "d", "u", "c", "t", "i", "o", "n", " ", " ">>)
                 => Cardinality({i \in 1..Len(result.outline) :
                        TrimmedLowercased(result.outline[i].text) = <<"i", "n", "t", "r", "o", "d", "u", "c", "t", "i", "o", "n">>}) = 1

\* C2 witness: the lines "Introduction" and "introduction  " and a bold block
\* "Introduction": candidates of all three strategies are folded into one entry
C2_Witness ==
    /\ pc = "done"
    /\ LET lines == Split(Get(pdf_data, "text", <<>>), <<"\n">>)
       IN  /\ \E n \in 1..Len(lines) : lines[n] = <<"I", "n", "t", "r", "o", "d", "u", "c", "t", "i", "o", "n">>
           /\ \E n \in 1..Len(lines) : lines[n] = <<"i", "n", "t", "r", "o", "d", "u", "c", "t", "i", "o", "n", " ", " ">>
    /\ \E h \in 1..Len(headings) : "font_size" \in DOMAIN headings[h]
                                   /\ headings[h].text = <<"I", "n", "t", "r", "o", "d", "u", "c", "t", "i", "o", "n">>
    /\ Cardinality({h \in 1..Len(headings) :
           TrimmedLowercased(headings[h].text) = <<"i", "n", "t", "r", "o", "d", "u", "c", "t", "i", "o", "n">>}) >= 4
    /\ Cardinality({e \in 1..Len(result.outline) :
           TrimmedLowercased(result.outline[e].text) = <<"i", "n", "t", "r", "o", "d", "u", "c", "t", "i", "o", "n">>}) = 1

\* the index of the first candidate of the list with the key of text t
FirstWithKey(cands, t) ==
    CHOOSE c \in 1..Len(cands) :
        /\ TrimmedLowercased(cands[c].text) = TrimmedLowercased(t)
        /\ \A b \in 1..(c - 1) : TrimmedLowercased(cands[b].text) # TrimmedLowercased(t)

\* C3: for each key the outline has exactly one entry, and it carries the level,
\* text and page of the first candidate of that key in the order font, pattern,
\* keyword
C3_FirstCandidateSurvives ==
    pc = "done" /\ Get(pdf_data, "text", <<>>) # <<>> =>
        LET cands == Candidates(pdf_data)
            outline == result.outline
        IN  /\ \A c \in 1..Len(cands) :
                  Cardinality({e \in 1..Len(outline) :
                      TrimmedLowercased(outline[e].text)
                      = TrimmedLowercased(cands[c].text)}) = 1
            /\ \A e \in 1..Len(outline) :
                  /\ \E c \in 1..Len(cands) :
                        TrimmedLowercased(cands[c].text) = TrimmedLowercased(outline[e].text)
                  /\ LET first == cands[FirstWithKey(cands, outline[e].text)]
                     IN  /\ outline[e].level = first.level
                         /\ outline[e].text = first.text
                         /\ outline[e].page = first.page

\* C3 witness: a key with a later candidate of another level and page, and one
\* with a later candidate of another text
C3_Witness ==
    /\ pc = "done"
    /\ Get(pdf_data, "text", <<>>) # <<>>
    /\ LET cands == Candidates(pdf_data)
       IN  /\ \E a, b \in 1..Len(cands) :
                  /\ a < b
                  /\ TrimmedLowercased(cands[a].text) = TrimmedLowercased(cands[b].text)
                  /\ cands[a].level # cands[b].level
                  /\ cands[a].page # cands[b].page
           /\ \E a, b \in 1..Len(cands) :
                  /\ a < b
                  /\ TrimmedLowercased(cands[a].text) = TrimmedLowercased(cands[b].text)
                  /\ cands[a].text # cands[b].text

\* C4 (as claimed): in the ordered heading list any two headings that share a
\* page and both carry a line number appear in line-number order
C4_LineNumberOrder ==
    pc = "format" =>
        \A i, j \in 1..Len(sorted_headings) :
            (/\ i < j
             /\ sorted_headings[i].page = sorted_headings[j].page
             /\ "line_number" \in DOMAIN sorted_headings[i]
             /\ "line_number" \in DOMAIN sorted_headings[j])
            => sorted_headings[i].line_number <= sorted_headings[j].line_number

(* ------------------------------------------------------------------ *)
(* segment_text_by_sections, line by line                              *)
(* ------------------------------------------------------------------ *)

\* the number of lines of a text given to segment_text_by_sections
MaxSegLines == 4

\* the lines a text is made of: two heading-like lines, three content lines and
\* a blank line
SegmentLines == {<<"T", "i", "t", "l", "e">>, <<"l", "i", "n", "e", "1">>, <<"l", "i", "n", "e", "2">>, <<"I", "n", "t", "r", "o", "d", "u", "c", "t", "i", "o", "n">>, <<"b", "o", "d", "y">>, <<>>}

\* the text of the example: Title, line1, line2, Introduction, body
ExampleText == <<"T", "i", "t", "l", "e", "\n", "l", "i", "n", "e", "1", "\n", "l", "i", "n", "e", "2", "\n", "I", "n", "t", "r", "o", "d", "u", "c", "t", "i", "o", "n", "\n", "b", "o", "d", "y">>

\* longer texts: the example, a text with a heading directly followed by a
\* heading and with a heading at its end, and texts whose lines carry white
\* space around them or consist of it, and texts with lines of one character,
\* with two- and three-level numbers and with words of the keyword strategy
LongerTexts == {
    ExampleText,
    <<"b", "o", "d", "y", "\n", "T", "i", "t", "l", "e", "\n", "I", "n", "t", "r", "o", "d", "u", "c", "t", "i", "o", "n", "\n", "l", "i", "n", "e", "1", "\n", "T", "i", "t", "l", "e">>,
    <<" ", " ", "b", "o", "d", "y", " ", "\n", "\t", "T", "i", "t", "l", "e", " ", "\n", " ", "l", "i", "n", "e", "1", "\r", "\n", " ", "\t", " ", "\n", "x">>,
    <<" ", "\n", " ", " ", "I", "n", "t", "r", "o", "d", "u", "c", "t", "i", "o", "n", "\n", "\n", " ", " ", " ", "l", "i", "n", "e", "2", " ", " ", " ">>,
    <<"x", "\n", "1", ".", " ", "A", "i", "m", "s", "\n", " ", "y", " ", "\n", "S", "C", "O", "P", "E", " ", "A", "N", "D", " ", "A", "I", "M", "S", "\n", " ", "t", "h", "e", " ", "m", "e", "t", "h", "o", "d", " ", "\n", " ", "z">>,
    <<"A", "\n", "1", ".", "1", " ", "D", "e", "t", "a", "i", "l", "\n", "T", "h", "i", "s", " ", "i", "s", " ", "a", " ", "r", "e", "g", "u", "l", "a", "r", " ", "p", "a", "r", "a", "g", "r", "a", "p", "h", ".", "\n", "t", "a", "b", "l", "e", " ", "o", "f", " ", "c", "o", "n", "t", "e", "n", "t", "s">>,
    <<"A", "B", "\n", "1", ".", "2", ".", "3", " ", "D", "e", "e", "p", " ", "i", "t", "e", "m", "\n", "a", "c", "k", "n", "o", "w", "l", "e", "d", "g", "m", "e", "n", "t", "s", "\n", "T", "a", "b", "l", "e", " ", "O", "f", " ", "C", "o", "n", "t", "e", "n", "t", "s">> }

SegmentTexts ==
    {Join(ls, <<"\n">>) : ls \in SeqsUpTo(SegmentLines, MaxSegLines)} \cup LongerTexts

\* lines = text.split('\n')
LinesOf(t) == Split(t, <<"\n">>)

SegmentInit ==
    /\ pc = "segment"
    /\ text \in SegmentTexts
    /\ line_idx = 1
    /\ seg = [sections |-> <<>>, current_section |-> EmptySection]
    /\ sections = Unused
    /\ OutlineIdle /\ RankIdle /\ AnalyzeIdle
    /\ ToolsIdle

\* one iteration of the loop: the line is blank after strip (continue)
SkipBlankLine ==
    /\ pc = "segment"
    /\ line_idx <= Len(LinesOf(text))
    /\ Strip(LinesOf(text)[line_idx]) = <<>>
    /\ seg' = SegmentLine(seg, LinesOf(text)[line_idx])
    /\ line_idx' = line_idx + 1
    /\ UNCHANGED <<pc, text, sections, outlineVars, rankVars, analyzeVars>>
    /\ UNCHANGED toolVars

\* one iteration of the loop: the line looks like a heading
OpenSection ==
    /\ pc = "segment"
    /\ line_idx <= Len(LinesOf(text))
    /\ Strip(LinesOf(text)[line_idx]) # <<>>
    /\ is_heading_candidate(Strip(LinesOf(text)[line_idx]))
    /\ seg' = SegmentLine(seg, LinesOf(text)[line_idx])
    /\ line_idx' = line_idx + 1
    /\ UNCHANGED <<pc, text, sections, outlineVars, rankVars, analyzeVars>>
    /\ UNCHANGED toolVars

\* one iteration of the loop: any other line is content
AppendContent ==
    /\ pc = "segment"
    /\ line_idx <= Len(LinesOf(text))
    /\ Strip(LinesOf(text)[line_idx]) # <<>>
    /\ ~is_heading_candidate(Strip(LinesOf(text)[line_idx]))
    /\ seg' = SegmentLine(seg, LinesOf(text)[line_idx])
    /\ line_idx' = line_idx + 1
    /\ UNCHANGED <<pc, text, sections, outlineVars, rankVars, analyzeVars>>
    /\ UNCHANGED toolVars

\* after the loop: the final section is added if it has content, and the list returned
ReturnSections ==
    /\ pc = "segment"
    /\ line_idx > Len(LinesOf(text))
    /\ sections' = SegmentFinal(seg)
    /\ pc' = "done"
    /\ UNCHANGED <<text, line_idx, seg, outlineVars, rankVars, analyzeVars>>
    /\ UNCHANGED toolVars

SegmentNext ==
    \/ SkipBlankLine
    \/ OpenSection
    \/ AppendContent
    \/ ReturnSections

SpecSegment == SegmentInit /\ [][SegmentNext]_vars

(* ------------------------------------------------------------------ *)
(* Claims about segment_text_by_sections                               *)
(* ------------------------------------------------------------------ *)

\* the lines of t, each trimmed
TrimmedLines(t) == LET lines == LinesOf(t) IN [n \in 1..Len(lines) |-> Strip(lines[n])]

\* the indices of the heading-like lines among the trimmed lines
HeadingIndices(trimmed) ==
    {n \in 1..Len(trimmed) : trimmed[n] # <<>> /\ is_heading_candidate(trimmed[n])}

\* the indices of the non-blank lines that are not heading-like
ContentIndices(trimmed) ==
    {n \in 1..Len(trimmed) : trimmed[n] # <<>> /\ ~is_heading_candidate(trimmed[n])}

RECURSIVE Ascending(_)
\* the elements of a finite set of numbers in ascending order
Ascending(S) ==
    IF S = {} THEN <<>>
    ELSE LET m == CHOOSE x \in S : \A y \in S : x <= y
         IN  <<m>> \o Ascending(S \ {m})

\* the heading line a content line n belongs to, H being the indices of the
\* heading lines: the last one above it, 0 if none
OwnerOf(H, n) ==
    LET above == {h \in H : h < n}
    IN  IF above = {} THEN 0 ELSE CHOOSE h \in above : \A g \in above : g <= h

\* the sections the claim describes: one per heading line (and one, untitled,
\* for the lines above the first heading) that owns a content line, in document
\* order, holding its trimmed content lines in document order
DescribedSections(t) ==
    LET trimmed == TrimmedLines(t)
        H == HeadingIndices(trimmed)
        C == ContentIndices(trimmed)
        owner == [n \in C |-> OwnerOf(H, n)]
        owners == Ascending({owner[n] : n \in C})
    IN  [i \in 1..Len(owners) |->
            [title |-> IF owners[i] = 0 THEN <<>> ELSE trimmed[owners[i]],
             content |-> LET own == Ascending({n \in C : owner[n] = owners[i]})
                         IN  [k \in 1..Len(own) |-> trimmed[own[k]]],
             page |-> 1]]

\* all non-blank lines of t that are not heading-like, trimmed, in document order
ContentLines(t) ==
    LET trimmed == TrimmedLines(t)
        c == Ascending(ContentIndices(trimmed))
    IN  [k \in 1..Len(c) |-> trimmed[c[k]]]

\* C9: the returned sections are those of the top-to-bottom scan: a heading-like
\* line closes the current section (kept only with content) and opens one titled
\* with it, any other non-blank line is appended trimmed; the example gives the
\* sections Title: [line1, line2] and Introduction: [body]; the contents
\* concatenated are all non-blank non-heading lines in document order
C9_SectionsOfTheScan ==
    pc = "done" =>
        /\ sections = DescribedSections(text)
        /\ ConcatAll([s \in 1..Len(sections) |-> sections[s].content])
           = ContentLines(text)
        /\ text = ExampleText =>
              /\ Len(sections) = 2
              /\ sections[1].title = <<"T", "i", "t", "l", "e">>
              /\ sections[1].content = <<<<"l", "i", "n", "e", "1">>, <<"l", "i", "n", "e", "2">>>>
              /\ sections[2].title = <<"I", "n", "t", "r", "o", "d", "u", "c", "t", "i", "o", "n">>
              /\ sections[2].content = <<<<"b", "o", "d", "y">>>>

\* C9 witness: the example text, segmented
C9_Witness == pc = "done" /\ text = ExampleText /\ Len(sections) = 2

\* C10: every returned section has at least one content line, and only the
\* first returned section can have an empty title
C10_SectionsHaveContent ==
    pc = "done" =>
        /\ \A s \in 1..Len(sections) : Len(sections[s].content) >= 1
        /\ \A s \in 2..Len(sections) : sections[s].title # <<>>

\* C10 witness: lines above the first heading, a heading directly followed by a
\* heading and a heading that ends the text; two sections are returned, the
\* first untitled
C10_Witness ==
    /\ pc = "done"
    /\ LET H == HeadingIndices(TrimmedLines(text))
       IN  /\ 1 \notin H
           /\ \E h \in H : h + 1 \in H
           /\ Len(LinesOf(text)) \in H
    /\ Len(sections) = 2
    /\ sections[1].title = <<>>

(* ------------------------------------------------------------------ *)
(* rank_sections_by_relevance, section by section                      *)
(* ------------------------------------------------------------------ *)

\* the number of sections given to rank_sections_by_relevance
MaxSections == 3

\* sections without a hit, with a repeated keyword in several cases, with a
\* keyword across two joined lines, and with equal scores
RankSections == {
    [title |-> <<"S", "c", "o", "p", "e">>, content |-> <<<<"n", "o", "t", "h", "i", "n", "g", " ", "r", "e", "l", "e", "v", "a", "n", "t">>>>, page |-> 1],
    [title |-> <<"D", "a", "t", "a">>, content |-> <<<<"d", "a", "t", "a", " ", "d", "a", "t", "a", " ", "D", "A", "T", "A">>>>, page |-> 1],
    [title |-> <<>>, content |-> <<<<"r", "e", "s", "u", "l", "t", "s", " ", "o", "n", " ", "r", "e", "l", "a", "t", "e", "d">>, <<"w", "o", "r", "k", " ", "a", "n", "d", " ", "D", "a", "t", "a">>>>, page |-> 1],
    [title |-> <<"M", "e", "t", "h", "o", "d", "s">>, content |-> <<<<"t", "h", "e", " ", "m", "e", "t", "h", "o", "d", " ", "a", "n", "d", " ", "r", "e", "s", "u", "l", "t", "s">>>>, page |-> 1],
    [title |-> <<"G", "o", "a", "l", "s">>, content |-> <<<<"D", "a", "t", "a", " ", "o", "n", "l", "y">>>>, page |-> 1] }

RankPersonaKeywords == { <<>>, <<<<"D", "a", "t", "a">>, <<"r", "e", "s", "u", "l", "t", "s">>>>, <<<<"r", "e", "l", "a", "t", "e", "d", " ", "w", "o", "r", "k">>>> }

RankJobKeywords == { <<>>, <<<<"d", "a", "t", "a">>>>, <<<<"m", "e", "t", "h", "o", "d">>, <<"d", "a", "t", "a">>, <<"b", "u", "d", "g", "e", "t">>, <<"d", "a", "t", "a">>>> }

RankInit ==
    /\ pc = "rank"
    /\ rank_input \in SeqsUpTo(RankSections, MaxSections)
    /\ persona_keywords \in RankPersonaKeywords
    /\ job_keywords \in RankJobKeywords
    /\ ranked_sections = <<>>
    /\ OutlineIdle /\ SegmentIdle /\ AnalyzeIdle
    /\ ToolsIdle

\* one iteration of the loop: the next section is scored and appended
ScoreNextSection ==
    /\ pc = "rank"
    /\ Len(ranked_sections) < Len(rank_input)
    /\ ranked_sections' = Append(ranked_sections,
                              ScoreSection(rank_input[Len(ranked_sections) + 1],
                                           persona_keywords, job_keywords))
    /\ UNCHANGED <<pc, persona_keywords, job_keywords, rank_input>>
    /\ UNCHANGED <<outlineVars, segmentVars, analyzeVars>>
    /\ UNCHANGED toolVars

\* after the loop: ranked_sections.sort(key=importance_rank, reverse=True); return
SortAndReturn ==
    /\ pc = "rank"
    /\ Len(ranked_sections) = Len(rank_input)
    /\ ranked_sections' = SortByRankDesc(ranked_sections)
    /\ pc' = "done"
    /\ UNCHANGED <<persona_keywords, job_keywords, rank_input>>
    /\ UNCHANGED <<outlineVars, segmentVars, analyzeVars>>
    /\ UNCHANGED toolVars

RankNext ==
    \/ ScoreNextSection
    \/ SortAndReturn

SpecRank == RankInit /\ [][RankNext]_vars

(* ------------------------------------------------------------------ *)
(* Claims about rank_sections_by_relevance                             *)
(* ------------------------------------------------------------------ *)

\* the number of entries of the keyword list that occur, case-insensitively, in
\* the text; an entry counts once
PresentCount(keywords, t) ==
    LET lowered == Lower(t)
    IN  Cardinality({k \in 1..Len(keywords) : Contains(lowered, Lower(keywords[k]))})

\* the score the claims describe for a section: present persona keywords plus
\* present job keywords over the number of keywords, 0 when there is none
DescribedScore(section, persona_kw, job_kw) ==
    LET joined == Join(section.content, <<" ">>)
        total == Len(persona_kw) + Len(job_kw)
    IN  IF total = 0 THEN [num |-> 0, den |-> 1]
        ELSE [num |-> PresentCount(persona_kw, joined) + PresentCount(job_kw, joined),
              den |-> total]

RECURSIVE DescribedScores(_, _, _)
\* the described scores of the sections of the input, in input order
DescribedScores(input, persona_kw, job_kw) ==
    IF input = <<>> THEN <<>>
    ELSE <<DescribedScore(Head(input), persona_kw, job_kw)>>
         \o DescribedScores(Tail(input), persona_kw, job_kw)

\* the position the claims describe for section k of the input: the number of
\* sections of strictly higher score plus the number of earlier sections of
\* equal score, plus one
DescribedPosition(score, k) ==
    1 + Cardinality({j \in 1..Len(score) : ScoreLess(score[k], score[j])})
      + Cardinality({j \in 1..(k - 1) : ScoreEq(score[k], score[j])})

RECURSIVE DescribedEntries(_, _, _)
\* the first i entries of the described ranking
DescribedEntries(input, score, i) ==
    IF i = 0 THEN <<>>
    ELSE LET k == CHOOSE k \in 1..Len(input) : DescribedPosition(score, k) = i
         IN  Append(DescribedEntries(input, score, i - 1),
                    [section |-> input[k], score |-> score[k], index |-> k])

\* the ranking the claims describe: every section of the input at its
\* described position, with its score and its index in the input
DescribedRanking(input, persona_kw, job_kw) ==
    DescribedEntries(input, DescribedScores(input, persona_kw, job_kw), Len(input))

\* the fields of a scored section other than its importance_rank
WithoutRank(scored) == [f \in DOMAIN scored \ {"importance_rank"} |-> scored[f]]

\* C5: rank_sections_by_relevance returns every input section exactly once,
\* by importance_rank descending, sections of equal rank in their input order;
\* the empty list gives the empty list, and with both keyword lists empty every
\* score is 0 and the input order is kept
C5_StableDescendingRanking ==
    pc = "done" =>
        LET described == DescribedRanking(rank_input, persona_keywords, job_keywords)
        IN  /\ Len(ranked_sections) = Len(rank_input)
            /\ \A i \in 1..Len(ranked_sections) :
                  /\ WithoutRank(ranked_sections[i]) = described[i].section
                  /\ ScoreEq(ranked_sections[i].importance_rank, described[i].score)
            /\ \A i, j \in 1..Len(ranked_sections) :
                  i < j => ~ScoreLess(ranked_sections[i].importance_rank,
                                      ranked_sections[j].importance_rank)
            /\ \A i, j \in 1..Len(ranked_sections) :
                  (i < j /\ ScoreEq(ranked_sections[i].importance_rank,
                                    ranked_sections[j].importance_rank))
                  => described[i].index < described[j].index
            /\ rank_input = <<>> => ranked_sections = <<>>
            /\ (persona_keywords = <<>> /\ job_keywords = <<>>) =>
                  /\ \A i \in 1..Len(ranked_sections) :
                        ranked_sections[i].importance_rank.num = 0
                  /\ [i \in 1..Len(ranked_sections) |-> WithoutRank(ranked_sections[i])]
                     = rank_input

\* C5 witness: three sections, the first two of equal non-zero score and the
\* third of higher score, ranked: the third comes first, the two others keep
\* their order
C5_Witness ==
    /\ pc = "done"
    /\ Len(rank_input) = 3
    /\ rank_input[1] # rank_input[2]
    /\ LET s == [k \in 1..3 |-> DescribedScore(rank_input[k], persona_keywords, job_keywords)]
       IN  /\ s[1].num > 0
           /\ ScoreEq(s[1], s[2])
           /\ ScoreLess(s[2], s[3])
    /\ WithoutRank(ranked_sections[1]) = rank_input[3]
    /\ WithoutRank(ranked_sections[2]) = rank_input[1]
    /\ WithoutRank(ranked_sections[3]) = rank_input[2]

\* C6: the importance_rank of a section is the number of persona keywords plus
\* the number of job keywords present (case-insensitively, each list entry
\* counted once) in its joined content, divided by the number of keywords, and
\* 0 when there are none; it lies in [0, 1]
C6_ScoreIsKeywordDensity ==
    \A i \in 1..Len(ranked_sections) :
        LET rank == ranked_sections[i].importance_rank
            joined == Join(ranked_sections[i].content, <<" ">>)
            present == PresentCount(persona_keywords, joined)
                       + PresentCount(job_keywords, joined)
            total == Len(persona_keywords) + Len(job_keywords)
        IN  /\ rank.den > 0
            /\ 0 <= rank.num /\ rank.num <= rank.den
            /\ total > 0 => rank.num * total = present * rank.den
            /\ total = 0 => rank.num = 0

\* C6 witness: a ranked section in which a keyword occurs three times, in two
\* cases, and whose score is neither 0 nor 1
C6_Witness ==
    /\ pc = "done"
    /\ \E i \in 1..Len(ranked_sections) :
          /\ ranked_sections[i].content = <<<<"d", "a", "t", "a", " ", "d", "a", "t", "a", " ", "D", "A", "T", "A">>>>
          /\ ranked_sections[i].importance_rank.num > 0
          /\ ranked_sections[i].importance_rank.num < ranked_sections[i].importance_rank.den
    /\ \E k \in 1..Len(persona_keywords) : persona_keywords[k] = <<"D", "a", "t", "a">>

(* ------------------------------------------------------------------ *)
(* PersonaAnalyzer.analyze_documents, statement by statement           *)
(* ------------------------------------------------------------------ *)

\* the number of documents given to analyze_documents
MaxDocs == 3

RECURSIVE Repeat(_, _)
\* s repeated n times
Repeat(s, n) == IF n = 0 THEN <<>> ELSE s \o Repeat(s, n - 1)

\* a content line of 588 characters
LongLine == Repeat(<<"i", "m", "p", "o", "r", "t", "a", "n", "t", " ", "k", "e", "y", " ", "e", "x", "a", "m", "p", "l", "e", " ", "d", "a", "t", "a", " ", "f", "r", "a", "m", "e", "w", "o", "r", "k", " ", "e", "x", "p", "e", "r", "i", "m", "e", "n", "t", " ">>, 12)

\* the documents: the example of two sections; five sections of different and
\* of equal scores; a document without text; one whose section is longer than
\* 500 characters and has a blank line between its two paragraphs
AnalyzeDocs == {
    [file_path |-> <<"a", ".", "p", "d", "f">>, title |-> <<"A">>, text |-> ExampleText],
    [file_path |-> <<"b", ".", "p", "d", "f">>, title |-> <<"B">>, text |->
        <<"M", "e", "t", "h", "o", "d", "s", "\n", "t", "h", "e", " ", "h", "y", "p", "o", "t", "h", "e", "s", "i", "s", " ", "a", "n", "d", " ", "t", "h", "e", " ", "e", "x", "p", "e", "r", "i", "m", "e", "n", "t", " ", "d", "a", "t", "a", "\n", "R", "e", "s", "u", "l", "t", "s", "\n", "s", "t", "a", "t", "i", "s", "t", "i", "c", "a", "l", " ", "c", "o", "r", "r", "e", "l", "a", "t", "i", "o", "n", " ", "o", "f", " ", "d", "a", "t", "a", "\n", "S", "c", "o", "p", "e", "\n", "n", "o", "t", "h", "i", "n", "g", " ", "r", "e", "l", "e", "v", "a", "n", "t", "\n", "G", "o", "a", "l", "s", "\n", "i", "m", "p", "o", "r", "t", "a", "n", "t", " ", "k", "e", "y", " ", "p", "r", "a", "c", "t", "i", "c", "e", " ", "e", "x", "a", "m", "p", "l", "e", " ", "d", "a", "t", "a", "\n", "N", "o", "t", "e", "s", "\n", "a", " ", "k", "e", "y", " ", "e", "x", "a", "m", "p", "l", "e">>],
    [file_path |-> <<"c", ".", "p", "d", "f">>, title |-> <<"C">>, text |-> <<>>],
    [title |-> <<"D">>, text |-> <<"F", "i", "n", "d", "i", "n", "g", "s", "\n">> \o LongLine \o <<"\n", "\n", "m", "o", "r", "e", " ", "d", "a", "t", "a">>] }

AnalyzePersonas == { <<"P", "h", "D", " ", "R", "e", "s", "e", "a", "r", "c", "h", "e", "r">>, <<"C", "a", "s", "u", "a", "l", " ", "r", "e", "a", "d", "e", "r">> }

AnalyzeJobs == { <<"P", "r", "e", "p", "a", "r", "e", " ", "a", " ", "l", "i", "t", "e", "r", "a", "t", "u", "r", "e", " ", "r", "e", "v", "i", "e", "w">>, <<"e", "x", "a", "m", " ", "p", "r", "e", "p", "a", "r", "a", "t", "i", "o", "n">>,
                 <<"f", "i", "n", "d", " ", "e", "x", "p", "e", "r", "i", "m", "e", "n", "t", " ", "d", "a", "t", "a", " ", "q", "u", "i", "c", "k", "l", "y">> }

AnalyzeInit ==
    /\ pc = "analyze"
    /\ documents \in SeqsUpTo(AnalyzeDocs, MaxDocs)
    /\ persona \in AnalyzePersonas
    /\ job_to_be_done \in AnalyzeJobs
    /\ persona_keywords = <<>>
    /\ job_keywords = <<>>
    /\ doc_idx = 1
    /\ all_sections = <<>>
    /\ rank_input = Unused
    /\ ranked_sections = <<>>
    /\ output = Unused
    /\ OutlineIdle /\ SegmentIdle
    /\ ToolsIdle

\* persona_keywords = self._extract_persona_keywords(persona), and the job's
ResolveKeywords ==
    /\ pc = "analyze"
    /\ persona_keywords' = _extract_persona_keywords(persona)
    /\ job_keywords' = _extract_job_keywords(job_to_be_done)
    /\ pc' = "documents"
    /\ UNCHANGED <<rank_input, ranked_sections, analyzeVars, outlineVars, segmentVars>>
    /\ UNCHANGED toolVars

\* one iteration of the loop over documents: if not doc_text: continue
SkipDocument ==
    /\ pc = "documents"
    /\ doc_idx <= Len(documents)
    /\ Get(documents[doc_idx], "text", <<>>) = <<>>
    /\ doc_idx' = doc_idx + 1
    /\ UNCHANGED <<pc, documents, persona, job_to_be_done, all_sections, output>>
    /\ UNCHANGED <<rankVars, outlineVars, segmentVars>>
    /\ UNCHANGED toolVars

\* one iteration of the loop over documents: the document is segmented and its
\* sections, stamped with its name, extend all_sections
SegmentDocument ==
    /\ pc = "documents"
    /\ doc_idx <= Len(documents)
    /\ Get(documents[doc_idx], "text", <<>>) # <<>>
    /\ all_sections' = all_sections \o DocumentSections(documents[doc_idx])
    /\ doc_idx' = doc_idx + 1
    /\ UNCHANGED <<pc, documents, persona, job_to_be_done, output>>
    /\ UNCHANGED <<rankVars, outlineVars, segmentVars>>
    /\ UNCHANGED toolVars

\* ranked_sections = rank_sections_by_relevance(all_sections, ...)
RankAllSections ==
    /\ pc = "documents"
    /\ doc_idx > Len(documents)
    /\ ranked_sections' = rank_sections_by_relevance(all_sections, persona_keywords, job_keywords)
    /\ pc' = "select"
    /\ UNCHANGED <<persona_keywords, job_keywords, rank_input>>
    /\ UNCHANGED <<analyzeVars, outlineVars, segmentVars>>
    /\ UNCHANGED toolVars

\* top_sections, sub_sections and the output record; return
ReturnAnalysis ==
    /\ pc = "select"
    /\ output' = AnalysisOutput(documents, persona, job_to_be_done, ranked_sections,
                                persona_keywords, job_keywords)
    /\ pc' = "done"
    /\ UNCHANGED <<documents, persona, job_to_be_done, doc_idx, all_sections>>
    /\ UNCHANGED <<rankVars, outlineVars, segmentVars>>
    /\ UNCHANGED toolVars

AnalyzeNext ==
    \/ ResolveKeywords
    \/ SkipDocument
    \/ SegmentDocument
    \/ RankAllSections
    \/ ReturnAnalysis

SpecAnalyze == AnalyzeInit /\ [][AnalyzeNext]_vars

(* ------------------------------------------------------------------ *)
(* Claims about analyze_documents                                      *)
(* ------------------------------------------------------------------ *)

\* C7: extracted_sections has min(10, number of pooled sections) entries, they
\* are the first entries of the ranking of all pooled sections, in ranked
\* order, and no section left out has a strictly higher importance_rank than
\* one included
C7_TopTenOfThePooledRanking ==
    pc = "done" =>
        LET described == DescribedRanking(all_sections, persona_keywords, job_keywords)
            extracted == output.extracted_sections
            n == Len(all_sections)
        IN  /\ Len(extracted) = IF n < 10 THEN n ELSE 10
            /\ \A i \in 1..Len(extracted) :
                  /\ extracted[i].document = described[i].section.document
                  /\ extracted[i].page_number = described[i].section.page_number
                  /\ extracted[i].section_title = described[i].section.title
                  /\ ScoreEq(extracted[i].importance_rank, described[i].score)
            /\ \A i \in 1..Len(extracted) : \A o \in (Len(extracted) + 1)..n :
                  ~ScoreLess(extracted[i].importance_rank, described[o].score)

\* C7 witness: more than ten pooled sections of several documents, ten of them
\* extracted in an order that is not the pooled order, the last one extracted
\* tied with one left out, and a section left out scoring less than the first
C7_Witness ==
    /\ pc = "done"
    /\ Len(all_sections) > 10
    /\ Len(output.extracted_sections) = 10
    /\ output.extracted_sections[1].section_title # all_sections[1].title
    /\ \E i, j \in 1..10 : output.extracted_sections[i].document
                           # output.extracted_sections[j].document
    /\ LET described == DescribedRanking(all_sections, persona_keywords, job_keywords)
       IN  /\ ScoreEq(described[11].score, output.extracted_sections[10].importance_rank)
           /\ ScoreLess(described[Len(all_sections)].score,
                        output.extracted_sections[1].importance_rank)

\* C8: sub_section_analysis has at most 20 entries, is ordered by
\* importance_rank descending, every entry has importance_rank strictly
\* greater than 0.1 and a refined_text of at most 500 characters
C8_SubSectionAnalysisBounds ==
    pc = "done" =>
        LET sub == output.sub_section_analysis
        IN  /\ Len(sub) <= 20
            /\ \A i, j \in 1..Len(sub) :
                  i < j => ~ScoreLess(sub[i].importance_rank, sub[j].importance_rank)
            /\ \A i \in 1..Len(sub) :
                  /\ 10 * sub[i].importance_rank.num > sub[i].importance_rank.den
                  /\ Len(sub[i].refined_text) <= 500

\* C8 witness: entries of different ranks, one of them cut to 500 characters,
\* while an extracted section scoring exactly 0.1 gave no entry
C8_Witness ==
    /\ pc = "done"
    /\ LET sub == output.sub_section_analysis
       IN  /\ \E i \in 1..Len(sub) : Len(sub[i].refined_text) = 500
           /\ \E i, j \in 1..Len(sub) :
                 ScoreLess(sub[j].importance_rank, sub[i].importance_rank)
           /\ \E e \in 1..Len(output.extracted_sections) :
                 /\ 10 * output.extracted_sections[e].importance_rank.num
                    = output.extracted_sections[e].importance_rank.den
                 /\ Len(sub) < Len(output.extracted_sections)

(* ------------------------------------------------------------------ *)
(* Claims about heading detection                                      *)
(* ------------------------------------------------------------------ *)

\* the heading-like lines the claims describe: at least 2 characters and one of
\* the lexical patterns (with the numeric prefixes of one, two and three
\* levels) or a word of the 22-word vocabulary of the keyword strategy
DescribedHeadingLike(trimmed) ==
    /\ Len(trimmed) >= 2
    /\ \/ MatchAllCaps(trimmed)
       \/ MatchNumbered(trimmed)
       \/ MatchSubNumbered(trimmed)
       \/ MatchSubSubNumbered(trimmed)
       \/ MatchTitleCase(trimmed)
       \/ MatchTitleCaseTrailing(trimmed)
       \/ \E k \in 1..Len(heading_keywords) : Contains(Lower(trimmed), heading_keywords[k])

\* C11: is_heading_candidate is true exactly for the described heading-like
\* texts: in the scan of segment_text_by_sections, the non-blank line just
\* processed opened a new section exactly when it is heading-like as described;
\* "Introduction" is heading-like and "This is a regular paragraph." is not
C11_HeadingLikeAsDescribed ==
    (pc = "segment" /\ line_idx > 1) =>
        LET line == Strip(LinesOf(text)[line_idx - 1])
            opened == seg.current_section = [title |-> line, content |-> <<>>, page |-> 1]
        IN  line # <<>> =>
               /\ opened <=> DescribedHeadingLike(line)
               /\ line = <<"I", "n", "t", "r", "o", "d", "u", "c", "t", "i", "o", "n">> => opened
               /\ line = <<"T", "h", "i", "s", " ", "i", "s", " ", "a", " ", "r", "e", "g", "u", "l", "a", "r", " ", "p", "a", "r", "a", "g", "r", "a", "p", "h", ".">> => ~opened

\* the size bucket the claims describe
SizeBucket(font_size) ==
    IF font_size >= 16 THEN 3 ELSE IF font_size >= 14 THEN 2 ELSE IF font_size >= 12 THEN 1 ELSE 0

\* the bucket b the claims describe for a block: its size bucket, plus 1 for a
\* font name that signals bold, plus 1 for a text that looks heading-like
DescribedBucket(trimmed, font_size, font_name) ==
    SizeBucket(font_size)
    + (IF Contains(Lower(font_name), <<"b", "o", "l", "d">>) THEN 1 ELSE 0)
    + (IF is_heading_candidate(trimmed) THEN 1 ELSE 0)

\* the blocks of the font metadata of the document
BlocksOf(data) ==
    LET pages == Get(Get(data, "metadata", <<>>), "pages", <<>>)
    IN  ConcatAll([p \in 1..Len(pages) |-> Get(pages[p], "text_blocks", <<>>)])

\* C12: every candidate of the font strategy has a bucket b of at least 1 and
\* the level H1 for b >= 3, H2 for b = 2, H3 for b = 1; the block of size 18,
\* font "Arial-Bold" and text "Conclusion" is H1, a block of size 14, font
\* "Arial" and a text that is not heading-like is H2
C12_FontLevelFromBucket ==
    pc = "pattern" =>
        \A i \in 1..Len(headings) :
            LET h == headings[i]
                b == DescribedBucket(h.text, h.font_size, h.font_name)
            IN  /\ b >= 1
                /\ h.level = IF b >= 3 THEN "H1" ELSE IF b = 2 THEN "H2" ELSE "H3"
                /\ (h.font_size = 18 /\ h.font_name = <<"A", "r", "i", "a", "l", "-", "B", "o", "l", "d">> /\ h.text = <<"C", "o", "n", "c", "l", "u", "s", "i", "o", "n">>)
                       => h.level = "H1"
                /\ (h.font_size = 14 /\ h.font_name = <<"A", "r", "i", "a", "l">> /\ ~is_heading_candidate(h.text))
                       => h.level = "H2"

\* C12 witness: the font strategy has given the two blocks of the claim their
\* levels H1 and H2, a block of bucket 1 the level H3, a block whose bucket
\* comes from its bold font and its text the level H1, and nothing to a block
\* of a black font whose bucket is 0
C12_Witness ==
    /\ pc = "pattern"
    /\ \E i \in 1..Len(headings) :
          /\ headings[i].text = <<"C", "o", "n", "c", "l", "u", "s", "i", "o", "n">> /\ headings[i].font_size = 18
          /\ headings[i].level = "H1"
    /\ \E i \in 1..Len(headings) :
          /\ headings[i].text = <<"r", "a", "n", "d", "o", "m", " ", "t", "e", "x", "t">> /\ headings[i].font_size = 14
          /\ headings[i].level = "H2"
    /\ \E i \in 1..Len(headings) :
          /\ headings[i].level = "H3"
          /\ DescribedBucket(headings[i].text, headings[i].font_size, headings[i].font_name) = 1
    /\ \E i \in 1..Len(headings) :
          /\ headings[i].font_size = 12 /\ headings[i].level = "H1"
    /\ LET blocks == BlocksOf(pdf_data)
       IN  \E b \in 1..Len(blocks) :
              /\ Contains(Lower(blocks[b].font_name), <<"b", "l", "a", "c", "k">>)
              /\ DescribedBucket(Strip(blocks[b].text), blocks[b].font_size,
                                 blocks[b].font_name) = 0
              /\ \A i \in 1..Len(headings) : headings[i].text # Strip(blocks[b].text)

\* a candidate of the pattern or keyword strategy (it carries a line number)
HasLineNumber(h) == "line_number" \in DOMAIN h

\* the candidates of the pattern strategy, once it has run and before the
\* keyword strategy
PatternCandidates == SelectSeq(headings, HasLineNumber)

\* the pattern strategy has the candidate of this text, level and line number on
\* page 1
PatternGave(trimmed, level, n) ==
    \E i \in 1..Len(PatternCandidates) :
        PatternCandidates[i] = [text |-> trimmed, level |-> level, page |-> 1,
                                line_number |-> n]

\* C13: the pattern strategy gives every line 'N. Capital...' the level H1 and
\* every line 'N.N Capital...' the level H2, with page 1 and the 1-based line
\* number; the text of "1. Scope", "Some body text", "1.1 Detail", "More text"
\* separated by blank lines gives "1. Scope" H1 and "1.1 Detail" H2
C13_NumberedLevels ==
    pc = "content" =>
        LET lines == Split(pdf_data.text, <<"\n">>)
        IN  /\ \A n \in 1..Len(lines) :
                  LET line == Strip(lines[n])
                  IN  /\ MatchNumbered(line) => PatternGave(line, "H1", n)
                      /\ MatchSubNumbered(line) => PatternGave(line, "H2", n)
            /\ pdf_data.text = <<"1", ".", " ", "S", "c", "o", "p", "e", "\n", "\n", "S", "o", "m", "e", " ", "b", "o", "d", "y", " ", "t", "e", "x", "t", "\n", "\n", "1", ".", "1", " ", "D", "e", "t", "a", "i", "l", "\n", "\n", "M", "o", "r", "e", " ", "t", "e", "x", "t">>
                  => PatternCandidates =
                        << [text |-> <<"1", ".", " ", "S", "c", "o", "p", "e">>, level |-> "H1", page |-> 1, line_number |-> 1],
                           [text |-> <<"1", ".", "1", " ", "D", "e", "t", "a", "i", "l">>, level |-> "H2", page |-> 1, line_number |-> 5] >>

\* C13 witness: the pattern strategy has run on the text of the claim
C13_Witness ==
    /\ pc = "content"
    /\ pdf_data.text = <<"1", ".", " ", "S", "c", "o", "p", "e", "\n", "\n", "S", "o", "m", "e", " ", "b", "o", "d", "y", " ", "t", "e", "x", "t", "\n", "\n", "1", ".", "1", " ", "D", "e", "t", "a", "i", "l", "\n", "\n", "M", "o", "r", "e", " ", "t", "e", "x", "t">>
    /\ PatternGave(<<"1", ".", " ", "S", "c", "o", "p", "e">>, "H1", 1)
    /\ PatternGave(<<"1", ".", "1", " ", "D", "e", "t", "a", "i", "l">>, "H2", 5)

\* C14 as stated: the pattern strategy gives every line 'N.N.N Capital...' the
\* level H1
C14_ThreeLevelsGiveH1 ==
    pc = "content" =>
        LET lines == Split(pdf_data.text, <<"\n">>)
        IN  \A n \in 1..Len(lines) :
                MatchSubSubNumbered(Strip(lines[n])) => PatternGave(Strip(lines[n]), "H1", n)

\* C14, amended: the pattern strategy gives every line 'N.N.N Capital...' the
\* level H3: the rules of one and of two levels ask for white space after
\* their number, so the rule of three levels is the first that matches
C14_ThreeLevelsGiveH3 ==
    pc = "content" =>
        LET lines == Split(pdf_data.text, <<"\n">>)
        IN  \A n \in 1..Len(lines) :
                MatchSubSubNumbered(Strip(lines[n])) => PatternGave(Strip(lines[n]), "H3", n)

\* C14 witness: the pattern strategy has given lines of three levels their level
C14_Witness ==
    /\ pc = "content"
    /\ PatternGave(<<"1", ".", "2", ".", "3", " ", "D", "e", "e", "p", " ", "i", "t", "e", "m">>, "H3", 1)
    /\ PatternGave(<<"2", ".", "1", " ", "P", "a", "r", "t", " ", "t", "w", "o">>, "H2", 2)
    /\ PatternGave(<<"1", "0", ".", " ", " ", "L", "a", "s", "t">>, "H1", 3)

\* C15: with an empty or missing text extract_outline returns the supplied
\* title, or "Untitled Document", and an empty outline; it raises nothing and
\* runs no strategy, whatever the font metadata
C15_EmptyTextGivesEmptyOutline ==
    ("text" \notin DOMAIN pdf_data \/ pdf_data.text = <<>>) =>
        /\ pc \in {"outline", "done"}
        /\ headings = <<>>
        /\ pc = "done" =>
              result = [title |-> IF "title" \in DOMAIN pdf_data THEN pdf_data.title
                                  ELSE <<"U", "n", "t", "i", "t", "l", "e", "d", " ", "D", "o", "c", "u", "m", "e", "n", "t">>,
                        outline |-> <<>>]

\* C15 witness: extract_outline has returned for a document without text and
\* without title whose font metadata holds headings
C15_Witness ==
    /\ pc = "done"
    /\ "text" \notin DOMAIN pdf_data
    /\ "title" \notin DOMAIN pdf_data
    /\ "metadata" \in DOMAIN pdf_data
    /\ pdf_data.metadata # None
    /\ _extract_headings_by_font(pdf_data.metadata) # <<>>
    /\ result.title = <<"U", "n", "t", "i", "t", "l", "e", "d", " ", "D", "o", "c", "u", "m", "e", "n", "t">>
    /\ result.outline = <<>>

\* the font data is absent: no metadata, None, no pages, or no text blocks
FontDataAbsent(data) ==
    \/ "metadata" \notin DOMAIN data
    \/ data.metadata = None
    \/ BlocksOf(data) = <<>>

\* the outline the pattern and keyword strategies alone produce
OutlineWithoutFont(t) ==
    OutlineOf(_sort_headings(_deduplicate_headings(
        _extract_headings_by_pattern(t) \o _extract_headings_by_content(t))))

\* C16: when the font data is absent extract_outline raises nothing and its
\* outline is what the pattern and keyword strategies alone produce
C16_NoFontDataNoError ==
    (~NotText(pdf_data) /\ FontDataAbsent(pdf_data)) =>
        /\ pc # "raised"
        /\ pc = "done" => result.outline = OutlineWithoutFont(pdf_data.text)

(* ------------------------------------------------------------------ *)
(* Claims about keyword resolution and the analysis result             *)
(* ------------------------------------------------------------------ *)

\* the normal result of documents that gave no relevant section: a record whose
\* extracted_sections and sub_section_analysis are empty
EmptyNormalResult(out) ==
    /\ {"extracted_sections", "sub_section_analysis"} \subseteq DOMAIN out
    /\ out.extracted_sections = <<>>
    /\ out.sub_section_analysis = <<>>

\* C17: analyze_documents called with an empty document list reports an
\* explicit no-documents condition, not the normal result with empty lists
C17_NoDocumentsIsExplicit ==
    (pc = "done" /\ documents = <<>>) => ~EmptyNormalResult(output)


\* the sections analyze_documents extracts for these arguments that score
\* above 0.1 while none of their paragraphs gives an entry
HighSectionsWithoutEntry(docs, persona_text, job_text) ==
    LET persona_kw == _extract_persona_keywords(persona_text)
        job_kw == _extract_job_keywords(job_text)
        pooled == ConcatAll([d \in 1..Len(docs) |-> DocumentSections(docs[d])])
        top_sections == TopOf(rank_sections_by_relevance(pooled, persona_kw, job_kw))
    IN  {s \in 1..Len(top_sections) :
            /\ AboveThreshold(top_sections[s].importance_rank)
            /\ SectionEntries(top_sections[s], persona_kw, job_kw) = <<>>}

\* C20: there are inputs for which a section in extracted_sections has
\* importance_rank above 0.1 and yet contributes no entry to
\* sub_section_analysis, each of its paragraphs scoring at most 0.1
C20_HighSectionCanGiveNoSubSection ==
    \E docs \in SeqsUpTo(AnalyzeDocs, MaxDocs) :
        \E persona_text \in AnalyzePersonas : \E job_text \in AnalyzeJobs :
            HighSectionsWithoutEntry(docs, persona_text, job_text) # {}

\* the sections analyze_documents extracts, with their content
TopSectionsOfRun == TopOf(ranked_sections)

\* the indices of the top sections that score above 0.1, in order
RECURSIVE AboveFrom(_)
AboveFrom(s) ==
    IF s > Len(TopSectionsOfRun) THEN <<>>
    ELSE (IF 10 * TopSectionsOfRun[s].importance_rank.num > TopSectionsOfRun[s].importance_rank.den
          THEN <<s>> ELSE <<>>) \o AboveFrom(s + 1)

\* the content of a section as one text, its lines joined by one space
JoinedContent(section) == Join(section.content, <<" ">>)

\* C28: the joined content of a section never contains a blank-line boundary,
\* so every top section is one paragraph scored like the section, and
\* sub_section_analysis is exactly the sub-sequence of extracted_sections with
\* importance_rank above 0.1, in the same order, with at most 10 entries; the
\* limits of 3 paragraphs per section and of 20 entries never take effect
C28_OneParagraphPerSection ==
    pc = "done" =>
        LET above == AboveFrom(1)
            sub == output.sub_section_analysis
        IN  /\ \A s \in 1..Len(TopSectionsOfRun) :
                  /\ TopSectionsOfRun[s].content # <<>>
                  /\ ~Contains(JoinedContent(TopSectionsOfRun[s]), <<"\n", "\n">>)
                  /\ Strip(JoinedContent(TopSectionsOfRun[s])) = JoinedContent(TopSectionsOfRun[s])
            /\ Len(sub) = Len(above)
            /\ Len(sub) <= 10
            /\ \A k \in 1..Len(above) :
                  /\ sub[k].document = output.extracted_sections[above[k]].document
                  /\ sub[k].page_number = output.extracted_sections[above[k]].page_number
                  /\ sub[k].importance_rank = output.extracted_sections[above[k]].importance_rank
                  /\ sub[k].refined_text = Take(JoinedContent(TopSectionsOfRun[above[k]]), 500)

\* C28 witness: a section whose two content lines were separated by a blank
\* line in the document scores above 0.1 and gives one entry with both lines,
\* while another extracted section gives none
C28_Witness ==
    /\ pc = "done"
    /\ Len(output.sub_section_analysis) < Len(output.extracted_sections)
    /\ \E k \in 1..Len(output.sub_section_analysis) : \E s \in 1..Len(TopSectionsOfRun) :
          /\ Len(TopSectionsOfRun[s].content) = 2
          /\ TopSectionsOfRun[s].title = <<"F", "i", "n", "d", "i", "n", "g", "s">>
          /\ output.sub_section_analysis[k].refined_text = Take(JoinedContent(TopSectionsOfRun[s]), 500)
          /\ output.sub_section_analysis[k].importance_rank = TopSectionsOfRun[s].importance_rank

(* ------------------------------------------------------------------ *)
(* Keyword resolution: the first two statements of analyze_documents   *)
(* on their own, over personas and jobs of every kind of match         *)
(* ------------------------------------------------------------------ *)

\* personas: containing one key, two keys (the later one first in the text),
\* a key in upper case, a key inside a longer word, and no key
KeywordPersonas == { <<"P", "h", "D", " ", "R", "e", "s", "e", "a", "r", "c", "h", "e", "r">>, <<"S", "t", "u", "d", "e", "n", "t", " ", "r", "e", "s", "e", "a", "r", "c", "h", "e", "r">>, <<"D", "a", "t", "a", " ", "a", "n", "a", "l", "y", "s", "t", " ", "a", "n", "d", " ", "m", "a", "n", "a", "g", "e", "r">>,
                     <<"J", "O", "U", "R", "N", "A", "L", "I", "S", "T">>, <<"C", "a", "s", "u", "a", "l", " ", "r", "e", "a", "d", "e", "r">>, <<"c", "o", "-", "m", "a", "n", "a", "g", "e", "r", "s">>, <<>> }

\* jobs: containing a key; containing a later key while an earlier one matches
\* by one word; two keys; one word of a key only; words of two keys; no word of
\* a key, with repeated words, with short words only, with more than ten words
KeywordJobs == { <<"P", "r", "e", "p", "a", "r", "e", " ", "a", " ", "l", "i", "t", "e", "r", "a", "t", "u", "r", "e", " ", "r", "e", "v", "i", "e", "w">>, <<"t", "e", "c", "h", "n", "i", "c", "a", "l", " ", "r", "e", "v", "i", "e", "w", " ", "o", "f", " ", "l", "i", "t", "e", "r", "a", "t", "u", "r", "e">>,
                 <<"e", "x", "a", "m", " ", "p", "r", "e", "p", "a", "r", "a", "t", "i", "o", "n", " ", "a", "n", "d", " ", "M", "a", "r", "k", "e", "t", " ", "A", "n", "a", "l", "y", "s", "i", "s">>, <<"R", "e", "v", "i", "e", "w", " ", "t", "h", "e", " ", "f", "i", "n", "a", "n", "c", "i", "a", "l", " ", "s", "t", "a", "t", "e", "m", "e", "n", "t", "s">>,
                 <<"a", "n", "a", "l", "y", "s", "i", "s", " ", "o", "f", " ", "m", "a", "r", "k", "e", "t", "s">>, <<"f", "i", "n", "d", " ", "e", "x", "p", "e", "r", "i", "m", "e", "n", "t", " ", "d", "a", "t", "a", " ", "q", "u", "i", "c", "k", "l", "y">>,
                 <<"f", "i", "n", "d", " ", "d", "a", "t", "a", " ", "f", "i", "n", "d", " ", "d", "a", "t", "a", " ", "q", "u", "i", "c", "k", "l", "y">>, <<"g", "o", " ", "t", "o", " ", "i", "t">>,
                 <<"a", "l", "p", "h", "a", " ", "b", "r", "a", "v", "o", " ", "c", "h", "a", "r", "l", "i", "e", " ", "d", "e", "l", "t", "a", " ", "e", "c", "h", "o", " ", "f", "o", "x", "t", "r", "o", "t", " ", "g", "o", "l", "f", " ", "h", "o", "t", "e", "l", " ", "i", "n", "d", "i", "a", " ", "j", "u", "l", "i", "e", "t", " ", "k", "i", "l", "o", " ", "l", "i", "m", "a", " ", "m", "i", "k", "e">> }

KeywordsInit ==
    /\ pc = "persona_keywords"
    /\ persona \in KeywordPersonas
    /\ job_to_be_done \in KeywordJobs
    /\ persona_keywords = Unused
    /\ job_keywords = Unused
    /\ rank_input = Unused
    /\ ranked_sections = Unused
    /\ documents = Unused
    /\ doc_idx = 0
    /\ all_sections = Unused
    /\ output = Unused
    /\ OutlineIdle /\ SegmentIdle
    /\ ToolsIdle

\* persona_keywords = self._extract_persona_keywords(persona)
ExtractPersonaKeywords ==
    /\ pc = "persona_keywords"
    /\ persona_keywords' = _extract_persona_keywords(persona)
    /\ pc' = "job_keywords"
    /\ UNCHANGED <<job_keywords, rank_input, ranked_sections>>
    /\ UNCHANGED <<analyzeVars, outlineVars, segmentVars>>
    /\ UNCHANGED toolVars

\* job_keywords = self._extract_job_keywords(job_to_be_done)
ExtractJobKeywords ==
    /\ pc = "job_keywords"
    /\ job_keywords' = _extract_job_keywords(job_to_be_done)
    /\ pc' = "done"
    /\ UNCHANGED <<persona_keywords, rank_input, ranked_sections>>
    /\ UNCHANGED <<analyzeVars, outlineVars, segmentVars>>
    /\ UNCHANGED toolVars

KeywordsNext ==
    \/ ExtractPersonaKeywords
    \/ ExtractJobKeywords

SpecKeywords == KeywordsInit /\ [][KeywordsNext]_vars

(* ------------------------------------------------------------------ *)
(* Claims about keyword resolution                                     *)
(* ------------------------------------------------------------------ *)

\* key k of the table is contained in the lowercased input
KeyContained(table, input, k) == Contains(Lower(input), table[k].key)

\* one of the words of key k of the table is contained in the lowercased input
KeyWordContained(table, input, k) ==
    \E w \in 1..Len(SplitWords(table[k].key)) :
        Contains(Lower(input), SplitWords(table[k].key)[w])

\* the precedence as described: the first contained key, else the first key
\* with a contained word, else nothing of the table (0)
DescribedKey(table, input) ==
    IF \E k \in 1..Len(table) : KeyContained(table, input, k)
    THEN CHOOSE k \in 1..Len(table) :
             /\ KeyContained(table, input, k)
             /\ \A j \in 1..(k - 1) : ~KeyContained(table, input, j)
    ELSE IF \E k \in 1..Len(table) : KeyWordContained(table, input, k)
    THEN CHOOSE k \in 1..Len(table) :
             /\ KeyWordContained(table, input, k)
             /\ \A j \in 1..(k - 1) : ~KeyWordContained(table, input, j)
    ELSE 0

\* every word of the keyword list is a word of the lowercased job text
FromJobText(keywords, job) ==
    \A i \in 1..Len(keywords) :
        \E w \in 1..Len(FindWords(Lower(job))) : keywords[i] = FindWords(Lower(job))[w]

\* C18: persona and job keywords follow a fixed precedence: the keyword set of
\* the first key of the table contained in the lowercased input, even when an
\* earlier key matches by a single word; only when no key is contained, that of
\* the first key one of whose words is contained; only then the fallback (the
\* default list for a persona, words of the job text for a job)
C18_KeywordPrecedence ==
    pc = "done" =>
        LET p == DescribedKey(persona_keywords_table, persona)
            j == DescribedKey(job_keywords_table, job_to_be_done)
        IN  /\ p # 0 => persona_keywords = persona_keywords_table[p].keywords
            /\ p = 0 => persona_keywords = default_persona_keywords
            /\ j # 0 => job_keywords = job_keywords_table[j].keywords
            /\ j = 0 => FromJobText(job_keywords, job_to_be_done)

\* C18 witness: the job contains a key of the table while an earlier key
\* matches by a single word only, and the keywords are those of the contained
\* key; the persona contains two keys and has the keywords of the first in
\* table order
C18_Witness ==
    /\ pc = "done"
    /\ \E k \in 1..Len(job_keywords_table) :
          /\ KeyContained(job_keywords_table, job_to_be_done, k)
          /\ \E e \in 1..(k - 1) :
                /\ KeyWordContained(job_keywords_table, job_to_be_done, e)
                /\ ~KeyContained(job_keywords_table, job_to_be_done, e)
          /\ job_keywords = job_keywords_table[k].keywords
    /\ \E a, b \in 1..Len(persona_keywords_table) :
          /\ a < b
          /\ KeyContained(persona_keywords_table, persona, a)
          /\ KeyContained(persona_keywords_table, persona, b)
          /\ persona_keywords = persona_keywords_table[a].keywords

\* C19: when the job text matches no key of the job table, neither by
\* substring nor by single word, the job keywords are at most ten words of the
\* lowercased job text, each longer than 3 characters and pairwise distinct
C19_FallbackWordsDistinct ==
    (pc = "done" /\ DescribedKey(job_keywords_table, job_to_be_done) = 0) =>
        /\ Len(job_keywords) <= 10
        /\ FromJobText(job_keywords, job_to_be_done)
        /\ \A i \in 1..Len(job_keywords) : Len(job_keywords[i]) > 3
        /\ \A i, k \in 1..Len(job_keywords) : i # k => job_keywords[i] # job_keywords[k]

(* ------------------------------------------------------------------ *)
(* utils.clean_text                                                    *)
(* ------------------------------------------------------------------ *)

RECURSIVE CollapseWhitespace(_)
\* re.sub(r'\s+', ' ', s): every maximal run of white space becomes one space
CollapseWhitespace(s) ==
    IF s = <<>> THEN <<>>
    ELSE IF s[1] \in Whitespace
         THEN <<" ">> \o CollapseWhitespace(SubSeq(s, SkipRun(s, 1, Whitespace, FALSE), Len(s)))
         ELSE <<s[1]>> \o CollapseWhitespace(Tail(s))

\* the characters [^\w\s\-\.\,\;\:\!\?\(\)\[\]] does not match
AllowedChar == WordChar \cup Whitespace
               \cup {"-", ".", ",", ";", ":", "!", "?", "(", ")", "[", "]"}

\* one character of re.sub(r'[^\w\s\-\.\,\;\:\!\?\(\)\[\]]', '', s)
IsAllowed(c) == c \in AllowedChar

\* the text trimmed and filtered, its white space left as it is
clean_text_KeepsLines(s) ==
    IF s = <<>> THEN <<>>
    ELSE SelectSeq(Strip(s), IsAllowed)

clean_text(s) ==
    IF s = <<>> THEN <<>>
    ELSE SelectSeq(CollapseWhitespace(Strip(s)), IsAllowed)

(* ------------------------------------------------------------------ *)
(* clean_text applied to a text and to its own result                  *)
(* ------------------------------------------------------------------ *)

\* the length of the texts enumerated in full
MaxCleanLen == 4

\* letters of both cases, a digit-free word character, three kinds of white
\* space, an allowed punctuation mark and a character outside the allow-list
CleanAlphabet == {"a", "B", "_", " ", "\t", "\n", ".", "@"}

\* the text of test_utils, and longer texts with characters outside the
\* allow-list inside and around white space
CleanTexts == SeqsUpTo(CleanAlphabet, MaxCleanLen)
              \cup { <<" ", " ", "T", "h", "i", "s", " ", " ", " ", "i", "s", " ", " ", " ", "a", " ", " ", " ", "t", "e", "s", "t", " ", " ", " ", "t", "e", "x", "t", " ", " ">>,
                     <<"T", "o", "t", "a", "l", ":", " ", "5", "0", "%", " ", "(", "o", "f", " ", "#", "1", ")", "\n", "\n", "*", " ", "n", "e", "x", "t", " ", "l", "i", "n", "e">>,
                     <<"a", " ", "@", " ", "b">>, <<"T", "i", "t", "l", "e", "\t", "\n", " ", "O", "n", "e", "\n", "$", " ", "t", "w", "o", " ", "$", "\n">> }

CleanInit ==
    /\ pc = "clean_text"
    /\ dirty_text \in CleanTexts
    /\ clean = Unused
    /\ clean_again = Unused
    /\ ExtractIdle /\ BatchIdle /\ SimilarityIdle
    /\ OutlineIdle /\ SegmentIdle /\ RankIdle /\ AnalyzeIdle

\* clean = clean_text(dirty_text)
CleanOnce ==
    /\ pc = "clean_text"
    /\ clean' = clean_text(dirty_text)
    /\ pc' = "again"
    /\ UNCHANGED <<dirty_text, clean_again, extractVars, batchVars, similarityVars>>
    /\ UNCHANGED <<outlineVars, segmentVars, rankVars, analyzeVars>>

\* clean_text(clean)
CleanAgain ==
    /\ pc = "again"
    /\ clean_again' = clean_text(clean)
    /\ pc' = "done"
    /\ UNCHANGED <<dirty_text, clean, extractVars, batchVars, similarityVars>>
    /\ UNCHANGED <<outlineVars, segmentVars, rankVars, analyzeVars>>

CleanNext ==
    \/ CleanOnce
    \/ CleanAgain

SpecClean == CleanInit /\ [][CleanNext]_vars

(* ------------------------------------------------------------------ *)
(* Claims about clean_text                                             *)
(* ------------------------------------------------------------------ *)

\* C21: clean_text is idempotent: clean_text(clean_text(t)) equals
\* clean_text(t) for every text t, also when t has characters outside the
\* allow-list next to white space
C21_CleanIsIdempotent ==
    pc = "done" => clean_again = clean

\* C22: the result of clean_text has no leading or trailing white space, no
\* two adjacent white space characters, only characters of the allow-list
\* (word characters, space, - . , ; : ! ? ( ) [ ]), the kept characters are
\* characters of the input in their case, and the text of test_utils becomes
\* "This is a test text"
C22_CleanResultIsNormal ==
    pc = "done" =>
        /\ clean # <<>> => (clean[1] \notin Whitespace /\ clean[Len(clean)] \notin Whitespace)
        /\ \A i \in 1..(Len(clean) - 1) : ~(clean[i] \in Whitespace /\ clean[i + 1] \in Whitespace)
        /\ \A i \in 1..Len(clean) :
              clean[i] \in WordChar \cup {" ", "-", ".", ",", ";", ":", "!", "?", "(", ")", "[", "]"}
        /\ \A i \in 1..Len(clean) :
              clean[i] = " " \/ \E j \in 1..Len(dirty_text) : dirty_text[j] = clean[i]
        /\ dirty_text = <<" ", " ", "T", "h", "i", "s", " ", " ", " ", "i", "s", " ", " ", " ", "a", " ", " ", " ", "t", "e", "s", "t", " ", " ", " ", "t", "e", "x", "t", " ", " ">> => clean = <<"T", "h", "i", "s", " ", "i", "s", " ", "a", " ", "t", "e", "s", "t", " ", "t", "e", "x", "t">>

(* ------------------------------------------------------------------ *)
(* main_enhanced.run_round_1a: the loop over the PDF files             *)
(* ------------------------------------------------------------------ *)

\* OutlineExtractor.extract_outline as one function of its argument (for an
\* argument it does not raise on)
extract_outline(data) ==
    IF NotText(data) THEN [title |-> TitleOf(data), outline |-> <<>>]
    ELSE LET metadata == Get(data, "metadata", <<>>)
             all == _extract_headings_by_font(metadata)
                    \o _extract_headings_by_pattern(data.text)
                    \o _extract_headings_by_content(data.text)
         IN  [title |-> TitleOf(data),
              outline |-> OutlineOf(_sort_headings(_deduplicate_headings(all)))]

\* the number of PDF files found in the input directory
MaxFiles == 3

\* what PDFProcessor.process_pdf_file returns: the record of a document with
\* three headings, of one with one heading, of one without heading, and the
\* record extract_text_with_metadata returns when the extraction failed
ProcessedData == {
    [text |-> <<"1", ".", " ", "S", "c", "o", "p", "e", " ", "o", "f", " ", "t", "h", "e", " ", "w", "o", "r", "k">>, title |-> <<"S", "c", "o", "p", "e", " ", "o", "f", " ", "t", "h", "e", " ", "w", "o", "r", "k">>, pages |-> 1,
     metadata |-> [pages |-> <<
        [page_number |-> 1, text_blocks |-> <<
            [text |-> <<"C", "o", "n", "c", "l", "u", "s", "i", "o", "n">>, font_size |-> 18, font_name |-> <<"A", "r", "i", "a", "l", "-", "B", "o", "l", "d">>],
            [text |-> <<"F", "i", "g", "u", "r", "e", " ", "o", "n", "e">>, font_size |-> 14, font_name |-> <<"T", "i", "m", "e", "s">>],
            [text |-> <<"p", "l", "a", "i", "n", " ", "t", "e", "x", "t", " ", "b", "o", "d", "y">>, font_size |-> 10, font_name |-> <<"T", "i", "m", "e", "s">>] >>] >>]],
    [text |-> <<"I", "n", "t", "r", "o", "d", "u", "c", "t", "i", "o", "n">>, title |-> <<"I", "n", "t", "r", "o", "d", "u", "c", "t", "i", "o", "n">>, pages |-> 1,
     metadata |-> [pages |-> << [page_number |-> 1, text_blocks |-> <<>>] >>]],
    [text |-> <<"n", "o", "t", "h", "i", "n", "g", " ", "t", "o", " ", "s", "e", "e", " ", "h", "e", "r", "e">>, title |-> <<"n", "o", "t", "h", "i", "n", "g", " ", "t", "o", " ", "s", "e", "e", " ", "h", "e", "r", "e">>, pages |-> 0,
     metadata |-> [pages |-> <<>>]],
    [text |-> <<>>, title |-> <<"E", "r", "r", "o", "r", " ", "P", "r", "o", "c", "e", "s", "s", "i", "n", "g", " ", "D", "o", "c", "u", "m", "e", "n", "t">>, pages |-> 0,
     metadata |-> <<>>, error |-> <<"N", "o", " ", "/", "R", "o", "o", "t", " ", "o", "b", "j", "e", "c", "t">> ] }

\* a file of the directory with what happens when it is processed: nothing
\* wrong, the file gone when it is opened (process_pdf_file raises
\* FileNotFoundError), the result not writable (save_json_output raises)
Failures == {"none", "FileNotFoundError", "PermissionError"}

BatchFiles ==
    {[name |-> n, failure |-> "none", data |-> d] :
        n \in { <<"a", ".", "p", "d", "f">>, <<"b", ".", "p", "d", "f">> }, d \in ProcessedData}
    \cup {[name |-> <<"c", ".", "p", "d", "f">>, failure |-> f, data |-> d] :
            f \in Failures \ {"none"},
            d \in {x \in ProcessedData : x.pages = 1 /\ Len(x.title) > 12}}

BatchInit ==
    /\ pc = "run_round_1a"
    /\ pdf_files \in SeqsUpTo(BatchFiles, MaxFiles)
    /\ file_idx = 1
    /\ results = Unused
    /\ CleanIdle /\ ExtractIdle /\ SimilarityIdle
    /\ OutlineIdle /\ SegmentIdle /\ RankIdle /\ AnalyzeIdle

\* if not pdf_files: return {"error": "No PDF files found"}
ReturnNoFiles ==
    /\ pc = "run_round_1a"
    /\ pdf_files = <<>>
    /\ results' = [error |-> "No PDF files found"]
    /\ pc' = "done"
    /\ UNCHANGED <<pdf_files, file_idx, cleanVars, extractVars, similarityVars>>
    /\ UNCHANGED <<outlineVars, segmentVars, rankVars, analyzeVars>>

\* results = {"round": "1A", "files_processed": 0, "total_headings": 0, "errors": [], ...}
StartResults ==
    /\ pc = "run_round_1a"
    /\ pdf_files # <<>>
    /\ results' = [round |-> "1A", files_processed |-> 0, total_headings |-> 0,
                   errors |-> <<>>]
    /\ pc' = "files"
    /\ UNCHANGED <<pdf_files, file_idx, cleanVars, extractVars, similarityVars>>
    /\ UNCHANGED <<outlineVars, segmentVars, rankVars, analyzeVars>>

\* safe_execute(self._process_single_pdf, file_path, output_dir): the outline
\* when process_pdf_file, extract_outline and save_json_output all return, the
\* error record of handle_pdf_processing_error when one of them raises
safe_execute(file) ==
    IF file.failure = "none"
    THEN [success |-> TRUE, result |-> extract_outline(file.data), error |-> None]
    ELSE [success |-> FALSE, result |-> None,
          error |-> [file_path |-> file.name, error_type |-> file.failure,
                     fallback_strategy |-> "skip", recovery_successful |-> TRUE]]

\* one iteration of the loop over pdf_files, the file counted as succeeded
CountProcessed ==
    /\ pc = "files"
    /\ file_idx <= Len(pdf_files)
    /\ LET execution_result == safe_execute(pdf_files[file_idx])
       IN  /\ execution_result.success
           /\ results' = [results EXCEPT
                 !.files_processed = @ + 1,
                 !.total_headings = @ + Len(Get(execution_result.result, "outline", <<>>))]
    /\ file_idx' = file_idx + 1
    /\ UNCHANGED <<pc, pdf_files, cleanVars, extractVars, similarityVars>>
    /\ UNCHANGED <<outlineVars, segmentVars, rankVars, analyzeVars>>

\* the loop left at the first file that fails
RecordError_StopsLoop ==
    /\ pc = "files"
    /\ file_idx <= Len(pdf_files)
    /\ LET execution_result == safe_execute(pdf_files[file_idx])
       IN  /\ ~execution_result.success
           /\ results' = [results EXCEPT
                 !.errors = Append(@, [file |-> pdf_files[file_idx].name,
                                       error |-> execution_result.error])]
    /\ pc' = "done"
    /\ UNCHANGED <<file_idx, pdf_files, cleanVars, extractVars, similarityVars>>
    /\ UNCHANGED <<outlineVars, segmentVars, rankVars, analyzeVars>>

\* one iteration of the loop over pdf_files, the file recorded as an error
RecordError ==
    /\ pc = "files"
    /\ file_idx <= Len(pdf_files)
    /\ LET execution_result == safe_execute(pdf_files[file_idx])
       IN  /\ ~execution_result.success
           /\ results' = [results EXCEPT
                 !.errors = Append(@, [file |-> pdf_files[file_idx].name,
                                       error |-> execution_result.error])]
    /\ file_idx' = file_idx + 1
    /\ UNCHANGED <<pc, pdf_files, cleanVars, extractVars, similarityVars>>
    /\ UNCHANGED <<outlineVars, segmentVars, rankVars, analyzeVars>>

\* the end of the loop: return results
ReturnResults ==
    /\ pc = "files"
    /\ file_idx > Len(pdf_files)
    /\ pc' = "done"
    /\ UNCHANGED <<batchVars, cleanVars, extractVars, similarityVars>>
    /\ UNCHANGED <<outlineVars, segmentVars, rankVars, analyzeVars>>

BatchNext ==
    \/ ReturnNoFiles
    \/ StartResults
    \/ CountProcessed
    \/ RecordError
    \/ ReturnResults

SpecBatch == BatchInit /\ [][BatchNext]_vars

(* ------------------------------------------------------------------ *)
(* Claims about run_round_1a                                           *)
(* ------------------------------------------------------------------ *)

\* the indices of the files whose processing fails
FailingFiles == {i \in 1..Len(pdf_files) : pdf_files[i].failure # "none"}

RECURSIVE HeadingsOfFiles(_)
\* the headings of the files of a set of indices, each file on its own
HeadingsOfFiles(S) ==
    IF S = {} THEN 0
    ELSE LET i == CHOOSE x \in S : TRUE
         IN  Len(extract_outline(pdf_files[i].data).outline) + HeadingsOfFiles(S \ {i})

\* C23: in run_round_1a a document whose processing fails is skipped and
\* recorded and the others are still processed: after the loop over n files,
\* files_processed plus the number of recorded errors is n, the recorded errors
\* are the failing files in their order, and every other file counts with the
\* headings it has on its own, whatever failed before it
C23_FailuresAreSkippedAndRecorded ==
    (pc = "done" /\ pdf_files # <<>>) =>
        /\ results.files_processed + Len(results.errors) = Len(pdf_files)
        /\ Len(results.errors) = Cardinality(FailingFiles)
        /\ \A e \in 1..Len(results.errors) :
              \E i \in FailingFiles :
                 /\ results.errors[e].file = pdf_files[i].name
                 /\ Cardinality({k \in FailingFiles : k < i}) = e - 1
        /\ results.total_headings = HeadingsOfFiles((1..Len(pdf_files)) \ FailingFiles)

\* C23 witness: three files, the first one failing, the two after it
\* processed and counted with their headings
C23_Witness ==
    /\ pc = "done"
    /\ Len(pdf_files) = 3
    /\ pdf_files[1].failure # "none"
    /\ results.files_processed = 2
    /\ Len(results.errors) = 1
    /\ results.total_headings > 2

(* ------------------------------------------------------------------ *)
(* PersonaAnalyzer.calculate_document_similarity                       *)
(* ------------------------------------------------------------------ *)

\* the words of TfidfVectorizer's stop_words='english' list that the texts
\* below use
StopWords == { <<"t", "h", "e">>, <<"a", "n", "d">>, <<"o", "f">>, <<"i", "s">>, <<"t", "o">>, <<"i", "t">> }

RECURSIVE Without(_, _)
\* [x for x in seq if x not in S]
Without(seq, S) ==
    IF seq = <<>> THEN <<>>
    ELSE (IF Head(seq) \in S THEN <<>> ELSE <<Head(seq)>>) \o Without(Tail(seq), S)

\* the analyzer of the vectorizer: the lowercased text's runs of two or more
\* word characters (token_pattern (?u)\b\w\w+\b) that are not stop words
Tokens(doc) == Without(LongerThan(FindWords(Lower(doc)), 1), StopWords)

\* ngram_range=(1, 2): the tokens, then the pairs of adjacent tokens
Terms(doc) ==
    LET tokens == Tokens(doc)
    IN  [i \in 1..Len(tokens) |-> <<tokens[i]>>]
        \o [i \in 1..(Len(tokens) - 1) |-> <<tokens[i], tokens[i + 1]>>]

\* min_df=2 with two documents: the vocabulary is the terms of both
Vocabulary(doc1, doc2) ==
    {Terms(doc1)[i] : i \in 1..Len(Terms(doc1))} \cap {Terms(doc2)[i] : i \in 1..Len(Terms(doc2))}

\* the number of times a term occurs in a document
TermCount(term, doc) == Cardinality({i \in 1..Len(Terms(doc)) : Terms(doc)[i] = term})

RECURSIVE DotProduct(_, _, _)
\* the sum over the terms of S of the product of their counts in two documents
DotProduct(S, doc1, doc2) ==
    IF S = {} THEN 0
    ELSE LET term == CHOOSE x \in S : TRUE
         IN  TermCount(term, doc1) * TermCount(term, doc2) + DotProduct(S \ {term}, doc1, doc2)

\* fit_transform and cosine_similarity on two documents. Every term kept is in
\* both documents, so all idf weights are equal and the cosine is that of the
\* count vectors. The value is kept exact as the fraction num/den of its
\* square: dot^2 / (|v1|^2 * |v2|^2).
TfidfCosine(doc1, doc2) ==
    LET vocabulary == Vocabulary(doc1, doc2)
        dot == DotProduct(vocabulary, doc1, doc2)
    IN  [path |-> "tfidf", num |-> dot * dot,
         den |-> DotProduct(vocabulary, doc1, doc1) * DotProduct(vocabulary, doc2, doc2)]

\* set(text.lower().split())
WordSet(doc) == {SplitWords(Lower(doc))[i] : i \in 1..Len(SplitWords(Lower(doc)))}

\* the except branch: the word overlap of the two documents, num/den
WordOverlap(doc1, doc2) ==
    LET words1 == WordSet(doc1)
        words2 == WordSet(doc2)
    IN  IF words1 = {} \/ words2 = {} THEN [path |-> "overlap", num |-> 0, den |-> 1]
        ELSE [path |-> "overlap", num |-> Cardinality(words1 \cap words2),
              den |-> Cardinality(words1 \cup words2)]

\* fit_transform raises ValueError when no term is left
VectorizerRaises(doc1, doc2) == Vocabulary(doc1, doc2) = {}

calculate_document_similarity(doc1, doc2) ==
    IF doc1 = <<>> \/ doc2 = <<>> THEN [path |-> "empty", num |-> 0, den |-> 1]
    ELSE IF VectorizerRaises(doc1, doc2) THEN WordOverlap(doc1, doc2)
    ELSE TfidfCosine(doc1, doc2)

\* the texts compared: with words kept by the vectorizer, with repeated words,
\* of stop words only, of one-letter words only, of punctuation only, of white
\* space only, and the empty text
SimilarityTexts == { <<"d", "a", "t", "a", " ", "a", "n", "a", "l", "y", "s", "i", "s">>, <<"D", "a", "t", "a", " ", "d", "a", "t", "a", " ", "r", "e", "s", "u", "l", "t", "s">>, <<"r", "e", "s", "u", "l", "t", "s", " ", "o", "f", " ", "t", "h", "e", " ", "d", "a", "t", "a", " ", "a", "n", "a", "l", "y", "s", "i", "s">>,
                     <<"T", "h", "e", " ", "D", "a", "t", "a">>, <<"t", "h", "e", " ", "a", "n", "d", " ", "o", "f">>, <<"t", "o", " ", "b", "e">>, <<"a", " ", "b", " ", "c">>, <<"!", "!", "!">>, <<"x">>,
                     <<" ">>, <<"\t", "\n", " ">>, <<>> }

SimilarityInit ==
    /\ pc = "similarity"
    /\ doc1_text \in SimilarityTexts
    /\ doc2_text \in SimilarityTexts
    /\ similarity = Unused
    /\ CleanIdle /\ ExtractIdle /\ BatchIdle
    /\ OutlineIdle /\ SegmentIdle /\ RankIdle /\ AnalyzeIdle

\* if not doc1_text or not doc2_text: return 0.0
ReturnZeroForEmpty ==
    /\ pc = "similarity"
    /\ doc1_text = <<>> \/ doc2_text = <<>>
    /\ similarity' = calculate_document_similarity(doc1_text, doc2_text)
    /\ pc' = "done"
    /\ UNCHANGED <<doc1_text, doc2_text, cleanVars, extractVars, batchVars>>
    /\ UNCHANGED <<outlineVars, segmentVars, rankVars, analyzeVars>>

\* the try block returns the cosine of the TF-IDF vectors
ReturnCosine ==
    /\ pc = "similarity"
    /\ doc1_text # <<>> /\ doc2_text # <<>>
    /\ ~VectorizerRaises(doc1_text, doc2_text)
    /\ similarity' = calculate_document_similarity(doc1_text, doc2_text)
    /\ pc' = "done"
    /\ UNCHANGED <<doc1_text, doc2_text, cleanVars, extractVars, batchVars>>
    /\ UNCHANGED <<outlineVars, segmentVars, rankVars, analyzeVars>>

\* the except block returns the word overlap
ReturnOverlap ==
    /\ pc = "similarity"
    /\ doc1_text # <<>> /\ doc2_text # <<>>
    /\ VectorizerRaises(doc1_text, doc2_text)
    /\ similarity' = calculate_document_similarity(doc1_text, doc2_text)
    /\ pc' = "done"
    /\ UNCHANGED <<doc1_text, doc2_text, cleanVars, extractVars, batchVars>>
    /\ UNCHANGED <<outlineVars, segmentVars, rankVars, analyzeVars>>

SimilarityNext ==
    \/ ReturnZeroForEmpty
    \/ ReturnCosine
    \/ ReturnOverlap

SpecSimilarity == SimilarityInit /\ [][SimilarityNext]_vars

(* ------------------------------------------------------------------ *)
(* Claims about calculate_document_similarity                          *)
(* ------------------------------------------------------------------ *)

\* the returned value is 1
IsOne(value) == value.den > 0 /\ value.num = value.den

\* C24: calculate_document_similarity(a, a) returns 1.0 for every non-empty
\* text a, on the TF-IDF path and on the word overlap path (texts of stop
\* words only or of white space only)
C24_SimilarityIsReflexive ==
    (pc = "done" /\ doc1_text = doc2_text /\ doc1_text # <<>>) => IsOne(similarity)

(* ------------------------------------------------------------------ *)
(* Claims about the keyword strategy, the sort and the font strategy   *)
(* ------------------------------------------------------------------ *)

\* the lowercased text contains one of the words
HasAny(trimmed, words) == \E w \in words : Contains(Lower(trimmed), w)

H1Class == { <<"i", "n", "t", "r", "o", "d", "u", "c", "t", "i", "o", "n">>, <<"c", "o", "n", "c", "l", "u", "s", "i", "o", "n">>, <<"a", "b", "s", "t", "r", "a", "c", "t">>, <<"s", "u", "m", "m", "a", "r", "y">>, <<"c", "h", "a", "p", "t", "e", "r">> }

H2Class == { <<"m", "e", "t", "h", "o", "d">>, <<"m", "e", "t", "h", "o", "d", "o", "l", "o", "g", "y">>, <<"r", "e", "s", "u", "l", "t", "s">>, <<"d", "i", "s", "c", "u", "s", "s", "i", "o", "n">>, <<"a", "n", "a", "l", "y", "s", "i", "s">>,
             <<"b", "a", "c", "k", "g", "r", "o", "u", "n", "d">> }

\* the level by keyword class as described, H1 first
DescribedContentLevel(trimmed) ==
    IF HasAny(trimmed, H1Class) THEN "H1"
    ELSE IF HasAny(trimmed, H2Class) THEN "H2"
    ELSE "H3"

\* the candidate the last strategy that ran gave for line n: the last entry of
\* headings with this line number
LastForLine(n) ==
    LET at == {i \in 1..Len(headings) : HasLineNumber(headings[i]) /\ headings[i].line_number = n}
    IN  headings[CHOOSE i \in at : \A j \in at : j <= i]

\* the keyword strategy gave a candidate for this line
KeywordLine(trimmed) == Len(trimmed) >= 2 /\ _contains_heading_keywords(trimmed)

\* C25: the keyword strategy assigns the level by class, H1 checked first: a
\* line with one of introduction, conclusion, abstract, summary, chapter is H1
\* even if it has a word of another class; otherwise a line with one of method,
\* methodology, results, discussion, analysis, background is H2; every other
\* vocabulary hit is H3
C25_LevelByKeywordClass ==
    pc = "dedup" =>
        LET lines == Split(pdf_data.text, <<"\n">>)
        IN  \A n \in 1..Len(lines) :
                KeywordLine(Strip(lines[n])) =>
                    /\ LastForLine(n).text = Strip(lines[n])
                    /\ LastForLine(n).level = DescribedContentLevel(Strip(lines[n]))

\* C25 witness: the keyword strategy has run on a text with a line of an H1 and
\* an H2 word that got H1, a line of an H2 word that got H2 and a line of
\* another vocabulary word that got H3
C25_Witness ==
    /\ pc = "dedup"
    /\ LET lines == Split(pdf_data.text, <<"\n">>)
       IN  /\ \E n \in 1..Len(lines) :
                 /\ KeywordLine(Strip(lines[n]))
                 /\ HasAny(lines[n], H1Class) /\ HasAny(lines[n], H2Class)
                 /\ LastForLine(n).level = "H1"
           /\ \E n \in 1..Len(lines) :
                 /\ KeywordLine(Strip(lines[n]))
                 /\ ~HasAny(lines[n], H1Class) /\ HasAny(lines[n], H2Class)
                 /\ LastForLine(n).level = "H2"
           /\ \E n \in 1..Len(lines) :
                 /\ KeywordLine(Strip(lines[n]))
                 /\ ~HasAny(lines[n], H1Class) /\ ~HasAny(lines[n], H2Class)
                 /\ LastForLine(n).level = "H3"

\* the place of entry i in a stable sort by page: after the entries of a
\* smaller page and the earlier entries of its own page
StablePlace(items, i) ==
    Cardinality({j \in 1..Len(items) : items[j].page < items[i].page})
    + Cardinality({j \in 1..i : items[j].page = items[i].page})

\* the stable sort by page
StableByPage(items) ==
    [p \in 1..Len(items) |-> items[CHOOSE i \in 1..Len(items) : StablePlace(items, i) = p]]

\* the pair at k and k + 1 is swapped when both entries have the same page and
\* a line number and are out of order
PairStep(items, k) ==
    IF /\ items[k].page = items[k + 1].page
       /\ HasLineNumber(items[k]) /\ HasLineNumber(items[k + 1])
       /\ items[k].line_number > items[k + 1].line_number
    THEN [p \in 1..Len(items) |->
            IF p = k THEN items[k + 1] ELSE IF p = k + 1 THEN items[k] ELSE items[p]]
    ELSE items

RECURSIVE PairsUpTo(_, _)
\* the pairs at 1, 2, ..., k handled once each, in this order
PairsUpTo(items, k) == IF k <= 0 THEN items ELSE PairStep(PairsUpTo(items, k - 1), k)

\* the line numbers of the entries, 0 for an entry without
LineNumbers(items) ==
    [p \in 1..Len(items) |-> IF HasLineNumber(items[p]) THEN items[p].line_number ELSE 0]

BoldOrBlack(font_name) ==
    Contains(Lower(font_name), <<"b", "o", "l", "d">>) \/ Contains(Lower(font_name), <<"b", "l", "a", "c", "k">>)

\* the font strategy emitted a candidate of level H1..H3 for the block
EmittedForBlock(block) ==
    \E i \in 1..Len(headings) :
        /\ headings[i].text = Strip(block.text)
        /\ Get(headings[i], "font_name", <<>>) = block.font_name
        /\ Get(headings[i], "font_size", 0) = block.font_size
        /\ headings[i].level \in {"H1", "H2", "H3"}

\* C27: every text block whose trimmed text has at least 2 characters and
\* whose font name contains "bold" or "black" is emitted by the font strategy
\* as a candidate of a level in H1..H3, whatever its size and its text
C27_BoldOrBlackAlwaysEmitted ==
    pc = "pattern" =>
        \A b \in 1..Len(BlocksOf(pdf_data)) :
            LET block == BlocksOf(pdf_data)[b]
            IN  (Len(Strip(block.text)) >= 2 /\ BoldOrBlack(block.font_name))
                    => EmittedForBlock(block)

(* ------------------------------------------------------------------ *)
(* PDFProcessor.extract_text_with_metadata and what is done with the   *)
(* text it returns                                                     *)
(* ------------------------------------------------------------------ *)

\* [A-Za-z\s\-\.,:;]
TitleChar == Upper \cup LowerCls \cup Whitespace \cup {"-", ".", ",", ":", ";"}

\* re.match(r'^[A-Z][A-Za-z\s\-\.,:;]+$', line)
MatchTitle(line) ==
    /\ Len(line) >= 2
    /\ line[1] \in Upper
    /\ \A i \in 2..Len(line) : line[i] \in TitleChar

\* utils.extract_title_from_text
extract_title_from_text(s) ==
    IF s = <<>> THEN <<"U", "n", "t", "i", "t", "l", "e", "d", " ", "D", "o", "c", "u", "m", "e", "n", "t">>
    ELSE LET lines == Take(Split(s, <<"\n">>), 10)
             titled == {i \in 1..Len(lines) :
                          /\ Len(Strip(lines[i])) > 3 /\ Len(Strip(lines[i])) < 200
                          /\ MatchTitle(Strip(lines[i]))}
             long == {i \in 1..Len(lines) : Len(Strip(lines[i])) > 3}
         IN  IF titled # {} THEN Strip(lines[CHOOSE i \in titled : \A j \in titled : i <= j])
             ELSE IF long # {}
             THEN Take(Strip(lines[CHOOSE i \in long : \A j \in long : i <= j]), 100)
             ELSE <<"U", "n", "t", "i", "t", "l", "e", "d", " ", "D", "o", "c", "u", "m", "e", "n", "t">>

\* the number of pages of a document with text
MaxPages == 2

\* what page.extract_text() gives for a page with text: lines that are
\* headings by pattern and by keyword and lines that are none, with blank
\* lines, white space and characters outside the allow-list of clean_text
PageTexts == { <<"I", "n", "t", "r", "o", "d", "u", "c", "t", "i", "o", "n", "\n", "T", "h", "i", "s", " ", "i", "s", " ", "t", "h", "e", " ", "b", "o", "d", "y", ".">>,
               <<"1", ".", " ", "S", "c", "o", "p", "e", "\n", "p", "l", "a", "i", "n", " ", "t", "e", "x", "t", " ", "b", "o", "d", "y", "\n", "\n", "1", ".", "1", " ", "D", "e", "t", "a", "i", "l">>,
               <<"t", "h", "e", " ", "s", "u", "m", "m", "a", "r", "y", " ", " ", "\n", " ", "*", " ", "p", "l", "a", "i", "n", " ", "w", "o", "r", "d", "s">>,
               <<"1", ".", "1", " ", "D", "e", "t", "a", "i", "l", "\n", "a", "c", "k", "n", "o", "w", "l", "e", "d", "g", "m", "e", "n", "t", "s">>,
               <<"n", "o", " ", "h", "e", "a", "d", "i", "n", "g", " ", "o", "n", " ", "t", "h", "i", "s", " ", "p", "a", "g", "e">> }

\* "\n".join(text_parts) of the pages with text
JoinedPages == {Join(ps, <<"\n">>) : ps \in SeqsUpTo(PageTexts, MaxPages)}

\* the metadata _extract_with_pdfplumber returns: no page (the extraction
\* failed), a page without blocks, a page with a heading block
PlumberMetadata == {
    [pages |-> <<>>],
    [pages |-> << [page_number |-> 1, text_blocks |-> <<>>] >>],
    [pages |-> << [page_number |-> 1, text_blocks |-> <<
        [text |-> <<"C", "o", "n", "c", "l", "u", "s", "i", "o", "n">>, font_size |-> 18, font_name |-> <<"A", "r", "i", "a", "l", "-", "B", "o", "l", "d">>] >>] >>] }

\* what the two extractions returned
ExtractInit ==
    /\ pc = "extract"
    /\ plumber_text \in JoinedPages
    /\ pypdf_text \in {<<>>, <<"O", "v", "e", "r", "v", "i", "e", "w", "\n", "s", "e", "c", "o", "n", "d", " ", "l", "i", "n", "e">>}
    /\ pdf_data \in {[metadata |-> m] : m \in PlumberMetadata}
    /\ combined_text = Unused
    /\ headings = <<>>
    /\ unique_headings = <<>>
    /\ sorted_headings = <<>>
    /\ result = Unused
    /\ CleanIdle /\ BatchIdle /\ SimilarityIdle
    /\ SegmentIdle /\ RankIdle /\ AnalyzeIdle

\* combined_text = clean_text(plumber_text if plumber_text else pypdf_text)
CombineAndClean ==
    /\ pc = "extract"
    /\ combined_text' = clean_text(IF plumber_text # <<>> THEN plumber_text ELSE pypdf_text)
    /\ pc' = "return"
    /\ UNCHANGED <<plumber_text, pypdf_text, cleanVars, batchVars, similarityVars>>
    /\ UNCHANGED <<outlineVars, segmentVars, rankVars, analyzeVars>>

\* the record extract_text_with_metadata returns, which _process_single_pdf
\* hands to extract_outline
ReturnData ==
    /\ pc = "return"
    /\ pdf_data' = [text |-> combined_text,
                    title |-> extract_title_from_text(combined_text),
                    metadata |-> pdf_data.metadata,
                    pages |-> Len(Get(pdf_data.metadata, "pages", <<>>))]
    /\ pc' = "outline"
    /\ UNCHANGED <<headings, unique_headings, sorted_headings, result>>
    /\ UNCHANGED <<extractVars, cleanVars, batchVars, similarityVars>>
    /\ UNCHANGED <<segmentVars, rankVars, analyzeVars>>

ExtractNext ==
    \/ CombineAndClean
    \/ ReturnData
    \/ ReturnEmpty
    \/ ExtractByFont
    \/ ExtractByPattern
    \/ ExtractByContent
    \/ Deduplicate
    \/ SortHeadings
    \/ ReturnOutline

SpecExtract == ExtractInit /\ [][ExtractNext]_vars

(* ------------------------------------------------------------------ *)
(* Claims about the extracted text                                     *)
(* ------------------------------------------------------------------ *)

\* the record extract_text_with_metadata returned is in pdf_data
Returned == pc \in {"outline", "pattern", "content", "dedup", "sort", "format", "done"}

\* the candidates with a line number in the list of the strategies
NumberedCandidates == SelectSeq(headings, HasLineNumber)

\* C29: the text extract_text_with_metadata returns has passed clean_text and
\* has no line break; the pattern and the keyword strategy see one line (at
\* most one candidate each, with line number 1) and segment_text_by_sections
\* returns at most one section, which has an empty title
C29_ExtractedTextIsOneLine ==
    Returned =>
        /\ \A i \in 1..Len(pdf_data.text) : pdf_data.text[i] # "\n"
        /\ Len(_extract_headings_by_pattern(pdf_data.text)) <= 1
        /\ Len(_extract_headings_by_content(pdf_data.text)) <= 1
        /\ pc = "content" => Len(NumberedCandidates) <= 1
        /\ pc \in {"dedup", "sort", "format", "done"} => Len(NumberedCandidates) <= 2
        /\ \A i \in 1..Len(NumberedCandidates) : NumberedCandidates[i].line_number = 1
        /\ Len(segment_text_by_sections(pdf_data.text)) <= 1
        /\ \A s \in 1..Len(segment_text_by_sections(pdf_data.text)) :
              segment_text_by_sections(pdf_data.text)[s].title = <<>>

\* C29 witness: a document of two pages with several lines each, the
\* extracted text one line that both strategies took as a candidate of line 1
\* and that segment_text_by_sections returns as one section without title
C29_Witness ==
    /\ pc = "dedup"
    /\ Len(Split(plumber_text, <<"\n">>)) >= 4
    /\ Len(segment_text_by_sections(pdf_data.text)) = 1
    /\ segment_text_by_sections(pdf_data.text)[1].content = <<pdf_data.text>>
    /\ Len(NumberedCandidates) = 2
    /\ NumberedCandidates[1].line_number = 1
    /\ NumberedCandidates[2].line_number = 1
    /\ NumberedCandidates[1].text = pdf_data.text

(* ------------------------------------------------------------------ *)
(* round1b/persona_analysis_local.process_documents                    *)
(* ------------------------------------------------------------------ *)

\* the record extract_text_with_metadata returns for a PDF of this text and
\* these page metadata
extract_text_with_metadata(full_text, metadata) ==
    [text |-> clean_text(full_text),
     title |-> extract_title_from_text(clean_text(full_text)),
     metadata |-> metadata,
     pages |-> Len(metadata.pages)]

\* what process_pdf_file returns for the PDFs of the input directory: two
\* with text on a page, and one that could not be read
LocalData ==
    {extract_text_with_metadata(t, m) :
        t \in { <<"S", "t", "u", "d", "y", " ", "n", "o", "t", "e", "s", "\n", "t", "h", "e", " ", "h", "y", "p", "o", "t", "h", "e", "s", "i", "s", " ", "a", "n", "d", " ", "t", "h", "e", " ", "e", "x", "p", "e", "r", "i", "m", "e", "n", "t", " ", "d", "a", "t", "a", "\n", "i", "m", "p", "o", "r", "t", "a", "n", "t", " ", "k", "e", "y", " ", "e", "x", "a", "m", "p", "l", "e">>,
                <<"n", "o", " ", "h", "e", "a", "d", "i", "n", "g", " ", "o", "n", " ", "t", "h", "i", "s", " ", "p", "a", "g", "e">> },
        m \in {x \in PlumberMetadata : Len(x.pages) = 1 /\ x.pages[1].text_blocks # <<>>}}
    \cup {d \in ProcessedData : d.text = <<>>}

\* the PDF files of the input directory: extracted ones, and one that
\* process_pdf_file raises FileNotFoundError on
LocalFiles ==
    {[name |-> <<"a", ".", "p", "d", "f">>, failure |-> "none", data |-> d] : d \in LocalData}
    \cup {f \in BatchFiles : f.failure = "FileNotFoundError"}

LocalInit ==
    /\ pc = "process_documents"
    /\ pdf_files \in SeqsUpTo(LocalFiles, MaxFiles)
    /\ file_idx = 1
    /\ results = Unused
    /\ documents = <<>>
    /\ persona \in AnalyzePersonas
    /\ job_to_be_done \in { <<"e", "x", "a", "m", " ", "p", "r", "e", "p", "a", "r", "a", "t", "i", "o", "n">> }
    /\ doc_idx = 0
    /\ all_sections = <<>>
    /\ output = Unused
    /\ RankIdle
    /\ CleanIdle /\ ExtractIdle /\ SimilarityIdle
    /\ OutlineIdle /\ SegmentIdle

\* if not pdf_files: return
ReturnNoLocalFiles ==
    /\ pc = "process_documents"
    /\ pdf_files = <<>>
    /\ pc' = "returned"
    /\ UNCHANGED <<batchVars, cleanVars, extractVars, similarityVars>>
    /\ UNCHANGED <<outlineVars, segmentVars, rankVars, analyzeVars>>

\* the directory has PDF files: the loop over them starts
StartLocalLoop ==
    /\ pc = "process_documents"
    /\ pdf_files # <<>>
    /\ pc' = "local_files"
    /\ UNCHANGED <<batchVars, cleanVars, extractVars, similarityVars>>
    /\ UNCHANGED <<outlineVars, segmentVars, rankVars, analyzeVars>>

\* a loop body that appends the extracted record itself, with its text at
\* the top level
AppendDocument_Flat ==
    /\ pc = "local_files"
    /\ file_idx <= Len(pdf_files)
    /\ pdf_files[file_idx].failure = "none"
    /\ documents' = Append(documents, pdf_files[file_idx].data)
    /\ file_idx' = file_idx + 1
    /\ UNCHANGED <<pc, pdf_files, results, cleanVars, extractVars, similarityVars>>
    /\ UNCHANGED <<persona, job_to_be_done, doc_idx, all_sections, output>>
    /\ UNCHANGED <<outlineVars, segmentVars, rankVars>>

\* all_documents.append({'filename': os.path.basename(pdf_file), 'data': pdf_data})
AppendDocument ==
    /\ pc = "local_files"
    /\ file_idx <= Len(pdf_files)
    /\ pdf_files[file_idx].failure = "none"
    /\ documents' = Append(documents, [filename |-> pdf_files[file_idx].name,
                                       data |-> pdf_files[file_idx].data])
    /\ file_idx' = file_idx + 1
    /\ UNCHANGED <<pc, pdf_files, results, cleanVars, extractVars, similarityVars>>
    /\ UNCHANGED <<persona, job_to_be_done, doc_idx, all_sections, output>>
    /\ UNCHANGED <<outlineVars, segmentVars, rankVars>>

\* process_pdf_file raised: the except branch prints and the loop goes on
SkipFailedFile ==
    /\ pc = "local_files"
    /\ file_idx <= Len(pdf_files)
    /\ pdf_files[file_idx].failure # "none"
    /\ file_idx' = file_idx + 1
    /\ UNCHANGED <<pc, pdf_files, results, cleanVars, extractVars, similarityVars>>
    /\ UNCHANGED <<outlineVars, segmentVars, rankVars, analyzeVars>>

\* if not all_documents: return
ReturnNoDocuments ==
    /\ pc = "local_files"
    /\ file_idx > Len(pdf_files)
    /\ documents = <<>>
    /\ pc' = "returned"
    /\ UNCHANGED <<batchVars, cleanVars, extractVars, similarityVars>>
    /\ UNCHANGED <<outlineVars, segmentVars, rankVars, analyzeVars>>

\* persona_analyzer.analyze_documents(all_documents, config['persona'], ...): the call
CallAnalyze ==
    /\ pc = "local_files"
    /\ file_idx > Len(pdf_files)
    /\ documents # <<>>
    /\ doc_idx' = 1
    /\ pc' = "analyze"
    /\ UNCHANGED <<documents, persona, job_to_be_done, all_sections, output>>
    /\ UNCHANGED <<batchVars, cleanVars, extractVars, similarityVars>>
    /\ UNCHANGED <<outlineVars, segmentVars, rankVars>>

\* analysis_result['metadata'] = {...}; save_json_output(analysis_result, output_file)
SaveResult ==
    /\ pc = "done"
    /\ output' = [output EXCEPT !.metadata =
                     [input_documents |-> [d \in 1..Len(documents) |-> documents[d].filename],
                      persona |-> persona, job_to_be_done |-> job_to_be_done]]
    /\ pc' = "saved"
    /\ UNCHANGED <<documents, persona, job_to_be_done, doc_idx, all_sections>>
    /\ UNCHANGED <<batchVars, cleanVars, extractVars, similarityVars>>
    /\ UNCHANGED <<outlineVars, segmentVars, rankVars>>

\* the steps of process_documents and of the analyze_documents it calls; the
\* body of the loop of analyze_documents on a document with text is never
\* enabled here (C30)
LocalNext ==
    \/ ReturnNoLocalFiles
    \/ StartLocalLoop
    \/ AppendDocument
    \/ SkipFailedFile
    \/ ReturnNoDocuments
    \/ CallAnalyze
    \/ ResolveKeywords
    \/ SkipDocument
    \/ RankAllSections
    \/ ReturnAnalysis
    \/ SaveResult

SpecLocal == LocalInit /\ [][LocalNext]_vars

(* ------------------------------------------------------------------ *)
(* Claims about process_documents                                      *)
(* ------------------------------------------------------------------ *)

\* C30: process_documents hands analyze_documents records {filename, data}
\* without a top-level text field, so analyze_documents skips every document:
\* for any set of extracted PDFs the saved result has empty
\* extracted_sections and empty sub_section_analysis
C30_LocalRunnerFindsNothing ==
    /\ \A d \in 1..Len(documents) : DOMAIN documents[d] = {"filename", "data"}
    /\ (pc = "documents" /\ doc_idx <= Len(documents))
          => Get(documents[doc_idx], "text", <<>>) = <<>>
    /\ pc = "saved" =>
          /\ all_sections = <<>>
          /\ output.extracted_sections = <<>>
          /\ output.sub_section_analysis = <<>>

\* C30 witness: two PDFs extracted with text that has headings and body, and
\* a saved result without sections
C30_Witness ==
    /\ pc = "saved"
    /\ Len(documents) >= 2
    /\ \A d \in 1..Len(documents) :
          /\ documents[d].data.text # <<>>
          /\ segment_text_by_sections(documents[d].data.text) # <<>>
    /\ output.extracted_sections = <<>>
    /\ output.sub_section_analysis = <<>>

====
